---- MODULE Spec2Model ----
(***************************************************************************)
(* A model of the four core routines of resume-job-matcher:                *)
(*   - TextProcessor.chunk_text          (src/common/text/text_processor)  *)
(*   - get_best_candidates_for_job / get_best_jobs_for_candidate           *)
(*                                       (src/ai/agents/talent_matcher)    *)
(*   - insert_candidate_to_mongo_dict / insert_job_to_mongo_dict           *)
(*                                       (src/database/mongo/mongo_util)   *)
(*   - TokenTracker                      (src/ai/tracking/token_tracker)   *)
(* Each routine has its own specification (SpecChunk, SpecRank, ...) over  *)
(* the shared variable list; the variables of the other routines stay at   *)
(* their parked initial value.                                             *)
(***************************************************************************)
EXTENDS Integers, Sequences, FiniteSets, TLC

VARIABLES
    \* ---- TextProcessor.chunk_text
    text,          \* the input text: a sequence of sentence sizes and paragraph breaks
    max_tokens,    \* argument max_tokens
    overlap,       \* argument overlap
    nlTokens,      \* tokens the encoder spends on one "\n" joining two lines
    chunks,        \* the returned list of chunks
    chunkPc,       \* "ready" before the call, "done" after it
    proc,          \* DocumentChunkProcessor.process_chunks_with_agents: its locals
                   \* and the agent runs it has started
    \* ---- talent matcher (vector index and the last tool call)
    nJobs,         \* number of documents in collection "job_descriptions"
    nCands,        \* number of documents in collection "candidate_profiles"
    indexUp,       \* FALSE: db_client.get_collection raises
    rankCall,      \* the arguments of the last tool call
    indexQuery,    \* the collection.query call it made: query text and n_results
    indexAnswer,   \* what collection.query returned for it
    rankResult,    \* what the tool returned (the decoded JSON)
    candidate_collection,  \* collection "candidate_profiles": document id -> document
    \* ---- document store (MongoDB) and the insertion routines
    candStore,     \* collection of candidates: the documents in insertion order
    jobStore,      \* collection of jobs
    storeUp,       \* FALSE: the server is unreachable, every store operation raises
    now,           \* int(time.time())
    mongoCall,     \* the last completed sequential call: number, input, outcome
    procs,         \* the concurrent callers of insert_candidate_to_mongo_dict
    \* ---- TokenTracker
    usage_records,     \* self.usage_records
    operation_totals,  \* self.operation_totals
    issued,            \* the record_usage calls made since construction or the last reset
    trackerReturn,     \* the last TokenTracker call and what it returned
    lock,              \* self._lock: 0 when free, else the thread holding it
    threads            \* the threads calling the tracker: position, call, locals, result

chunkVars == <<text, max_tokens, overlap, nlTokens, chunks, chunkPc, proc>>

rankVars == <<nJobs, nCands, indexUp, rankCall, indexQuery, indexAnswer, rankResult,
              candidate_collection>>

mongoVars == <<candStore, jobStore, storeUp, now, mongoCall, procs>>

trackerVars == <<usage_records, operation_totals, issued, trackerReturn, lock, threads>>

vars == <<chunkVars, rankVars, mongoVars, trackerVars>>

\* ------------------------------------------------------------------------
\* Generic helpers
\* ------------------------------------------------------------------------

RECURSIVE SumSeq(_)
SumSeq(s) == IF s = <<>> THEN 0 ELSE Head(s) + SumSeq(Tail(s))

RECURSIVE Flatten(_)
Flatten(ss) == IF ss = <<>> THEN <<>> ELSE Head(ss) \o Flatten(Tail(ss))

SeqsUpTo(S, n) == UNION { [1..k -> S] : k \in 0..n }

\* ------------------------------------------------------------------------
\* TextProcessor.chunk_text
\*
\* A text is a sequence over sentence sizes and the paragraph separator
\* "\n\n" (BREAK).  A sentence is a maximal piece without a sentence boundary;
\* its size is what estimate_tokens returns for it (>= 1, the piece being
\* non-blank).  Sentences of one paragraph are separated by whitespace, which
\* the encoder folds into the following token, so a paragraph counts the sum
\* of its sentences.  Joining lines with "\n" costs nlTokens per separator.
\* ------------------------------------------------------------------------

BREAK == 0

MaxTextLen == 5

SentenceSizes == {1, 2, 3}

MaxTokensChoices == {2, 4}

OverlapChoices == {0, 1, 3}

NlTokenChoices == {0, 1}

Texts == SeqsUpTo(SentenceSizes \cup {BREAK}, MaxTextLen)

\* text.split("\n\n"): the paragraphs, blank ones (<<>>) included.
RECURSIVE SplitParagraphs(_, _)
SplitParagraphs(t, cur) ==
    IF t = <<>> THEN <<cur>>
    ELSE IF Head(t) = BREAK THEN <<cur>> \o SplitParagraphs(Tail(t), <<>>)
    ELSE SplitParagraphs(Tail(t), Append(cur, Head(t)))

\* estimate_tokens of a paragraph or of a sentence (a sequence of sentence sizes).
estimate_tokens(sentences) == SumSeq(sentences)

\* _split_into_sentences: one unit per sentence of paragraph p.
split_into_sentences(p, para) ==
    [s \in 1..Len(para) |-> [para |-> p, sent |-> s, tok |-> para[s]]]

\* The units chunk_text feeds to its buffer, in order: a non-blank paragraph
\* as a whole (sent = 0), or its sentences when it is larger than m.
RECURSIVE UnitsFrom(_, _, _)
UnitsFrom(paras, p, m) ==
    IF p > Len(paras) THEN <<>>
    ELSE LET para == paras[p]
             here == IF para = <<>> THEN <<>>
                     ELSE IF estimate_tokens(para) > m
                          THEN split_into_sentences(p, para)
                          ELSE <<[para |-> p, sent |-> 0, tok |-> estimate_tokens(para)]>>
         IN here \o UnitsFrom(paras, p + 1, m)

Units(t, m) == IF t = <<>> THEN <<>> ELSE UnitsFrom(SplitParagraphs(t, <<>>), 1, m)

\* A line of the buffer: a unit, or the overlap text (several units joined by "\n").
UnitLine(u) == [seed |-> FALSE, units |-> <<u>>]

UnitToks(us) == [i \in 1..Len(us) |-> us[i].tok]

\* estimate_tokens of a line.
LineTokens(line, nl) ==
    IF line.units = <<>> THEN 0
    ELSE SumSeq(UnitToks(line.units)) + nl * (Len(line.units) - 1)

\* _get_overlap_text: walk the lines from the end while they fit in overlap_tokens.
RECURSIVE OverlapLines(_, _, _, _)
OverlapLines(chunk_lines, overlap_tokens, nl, current_tokens) ==
    IF chunk_lines = <<>> THEN <<>>
    ELSE LET line == chunk_lines[Len(chunk_lines)]
             line_tokens == LineTokens(line, nl)
         IN IF current_tokens + line_tokens > overlap_tokens THEN <<>>
            ELSE OverlapLines(SubSeq(chunk_lines, 1, Len(chunk_lines) - 1),
                              overlap_tokens, nl, current_tokens + line_tokens)
                 \o <<line>>

\* Mutant: the overlap is the last line alone, whenever it fits.
get_overlap_text_last_line(chunk_lines, overlap_tokens, nl) ==
    LET overlap_lines == OverlapLines(SubSeq(chunk_lines, Len(chunk_lines), Len(chunk_lines)),
                                      overlap_tokens, nl, 0)
    IN [seed |-> TRUE,
        units |-> Flatten([i \in 1..Len(overlap_lines) |-> overlap_lines[i].units])]

\* "\n".join(overlap_lines): the overlap text, one line of the next buffer.
get_overlap_text(chunk_lines, overlap_tokens, nl) ==
    LET overlap_lines == OverlapLines(chunk_lines, overlap_tokens, nl, 0)
    IN [seed |-> TRUE,
        units |-> Flatten([i \in 1..Len(overlap_lines) |-> overlap_lines[i].units])]

\* Mutant: a unit larger than max_tokens is left out.
AddUnitSkipsOversized(st, u, m, ov, nl) ==
    IF u.tok > m THEN st
    ELSE [chunks |-> st.chunks,
          current_chunk |-> Append(st.current_chunk, UnitLine(u)),
          current_tokens |-> st.current_tokens + u.tok]

\* One pass of the loop body for a unit (the sentence branch and the paragraph
\* branch run the same code): flush when the unit does not fit, seed the next
\* buffer with the overlap, append the unit.
AddUnit(st, u, m, ov, nl) ==
    LET flush == st.current_tokens + u.tok > m /\ st.current_chunk # <<>>
        overlap_text == get_overlap_text(st.current_chunk, ov, nl)
        seeded == flush /\ ov > 0 /\ overlap_text.units # <<>>
        chunks1 == IF flush THEN Append(st.chunks, st.current_chunk) ELSE st.chunks
        chunk1 == IF ~flush THEN st.current_chunk
                  ELSE IF seeded THEN <<overlap_text>> ELSE <<>>
        tokens1 == IF ~flush THEN st.current_tokens
                   ELSE IF seeded THEN LineTokens(overlap_text, nl) ELSE 0
    IN [chunks |-> chunks1,
        current_chunk |-> Append(chunk1, UnitLine(u)),
        current_tokens |-> tokens1 + u.tok]

RECURSIVE FoldUnits(_, _, _, _, _)
FoldUnits(st, us, m, ov, nl) ==
    IF us = <<>> THEN st
    ELSE FoldUnits(AddUnit(st, Head(us), m, ov, nl), Tail(us), m, ov, nl)

\* Mutant: the buffer left after the loop is forgotten.
FinalFlushDropsLast(st) == st.chunks

\* The last chunk, if the buffer holds one.
FinalFlush(st) ==
    IF st.current_chunk # <<>> THEN Append(st.chunks, st.current_chunk) ELSE st.chunks

chunk_text(t, m, ov, nl) ==
    IF t = <<>> THEN <<>>
    ELSE FinalFlush(FoldUnits([chunks |-> <<>>, current_chunk |-> <<>>, current_tokens |-> 0],
                              Units(t, m), m, ov, nl))

\* The state of the routines a specification does not exercise.
NoProc == [pc |-> "parked"]

ParkedChunk ==
    /\ text = <<>>
    /\ max_tokens = 1
    /\ overlap = 0
    /\ nlTokens = 0
    /\ chunks = <<>>
    /\ chunkPc = "parked"
    /\ proc = NoProc

NoCall == [fn |-> "none"]

\* No collection.query call was made.
NoQuery == [made |-> FALSE, query_doc |-> 0, n_results |-> 0]

ParkedRank ==
    /\ nJobs = 0
    /\ nCands = 0
    /\ indexUp = TRUE
    /\ rankCall = NoCall
    /\ indexQuery = NoQuery
    /\ indexAnswer = <<>>
    /\ rankResult = NoCall
    /\ candidate_collection = <<>>

NoMongoCall == [n |-> 0, fn |-> "none"]

ParkedMongo ==
    /\ candStore = <<>>
    /\ jobStore = <<>>
    /\ storeUp = TRUE
    /\ now = 0
    /\ mongoCall = NoMongoCall
    /\ procs = <<>>

NoTrackerCall == [call |-> "none"]

\* TokenTracker.__init__
ParkedTracker ==
    /\ usage_records = <<>>
    /\ operation_totals = [op \in {} |-> 0]
    /\ issued = <<>>
    /\ trackerReturn = NoTrackerCall
    /\ lock = 0
    /\ threads = <<>>

InitChunk ==
    /\ ParkedRank
    /\ ParkedMongo
    /\ ParkedTracker
    /\ text \in Texts
    /\ max_tokens \in MaxTokensChoices
    /\ overlap \in OverlapChoices
    /\ nlTokens \in NlTokenChoices
    /\ chunks = <<>>
    /\ chunkPc = "ready"
    /\ proc = NoProc

ChunkText ==
    /\ chunkPc = "ready"
    /\ chunks' = chunk_text(text, max_tokens, overlap, nlTokens)
    /\ chunkPc' = "done"
    /\ UNCHANGED <<text, max_tokens, overlap, nlTokens, proc>>
    /\ UNCHANGED <<rankVars, mongoVars, trackerVars>>

NextChunk == ChunkText

SpecChunk == InitChunk /\ [][NextChunk]_vars

\* ---- chunk measurements used by the properties

\* The units of a chunk, overlap seed included.
ChunkUnits(chunk) == Flatten([i \in 1..Len(chunk) |-> chunk[i].units])

\* The units a chunk adds: its lines without the overlap seed.
RECURSIVE OwnUnits(_)
OwnUnits(chunk) ==
    IF chunk = <<>> THEN <<>>
    ELSE (IF Head(chunk).seed THEN <<>> ELSE Head(chunk).units) \o OwnUnits(Tail(chunk))

ChunkSize(chunk) == SumSeq(UnitToks(ChunkUnits(chunk)))

\* C1: every returned chunk has size (token total of its units, seed included)
\* at most max_tokens, unless it holds a single unit that is itself larger
\* than max_tokens.
C1_ChunkSizeBounded ==
    chunkPc = "done" =>
        \A i \in 1..Len(chunks) :
            \/ ChunkSize(chunks[i]) <= max_tokens
            \/ /\ Len(ChunkUnits(chunks[i])) = 1
               /\ ChunkUnits(chunks[i])[1].tok > max_tokens

\* C2: the chunks without their overlap seeds, concatenated in order, are
\* exactly the units of the text in their original order.
C2_Reconstructs ==
    chunkPc = "done" =>
        Flatten([i \in 1..Len(chunks) |-> OwnUnits(chunks[i])]) = Units(text, max_tokens)

C2_Witness ==
    /\ chunkPc = "done"
    /\ Len(chunks) >= 3
    /\ \E i \in 2..Len(chunks) : chunks[i][1].seed
    /\ \E i \in 1..Len(text) : text[i] = BREAK

\* ---- the overlap between consecutive chunks

\* The overlap text a chunk begins with (its units), empty if it has none.
SeedOf(chunk) == IF chunk[1].seed THEN chunk[1].units ELSE <<>>

Suffix(s, k) == SubSeq(s, k, Len(s))

\* The longest suffix of a sequence whose total, as measured by Total, is at
\* most the limit.
LongestSuffix(s, limit, Total(_)) ==
    LET k == CHOOSE j \in 1..(Len(s) + 1) :
                /\ Total(Suffix(s, j)) <= limit
                /\ \A i \in 1..(j - 1) : Total(Suffix(s, i)) > limit
    IN Suffix(s, k)

UnitTotal(us) == SumSeq(UnitToks(us))

\* Every chunk but the last was flushed because the next unit did not fit.
FlushedChunks == 1..(Len(chunks) - 1)

\* C13 as stated: the buffer after a flush is seeded, for overlap > 0, with the
\* longest suffix of whole units (sentences, paragraphs) of the flushed buffer
\* whose token total is at most overlap, and with nothing for overlap = 0.
C13_SeedIsLongestUnitSuffix ==
    chunkPc = "done" =>
        \A i \in FlushedChunks :
            SeedOf(chunks[i + 1])
                = IF overlap > 0
                  THEN LongestSuffix(ChunkUnits(chunks[i]), overlap, UnitTotal)
                  ELSE <<>>

\* C13 amended: the suffix is one of whole entries of the flushed buffer, an
\* entry being a unit or the overlap text the buffer itself began with, which
\* is taken or left as a whole and counts its own token estimate (the tokens
\* of the "\n" joins inside it included).
C13_SeedIsLongestEntrySuffix ==
    chunkPc = "done" =>
        \A i \in FlushedChunks :
            LET EntryTotal(lines) == SumSeq([j \in 1..Len(lines) |-> LineTokens(lines[j], nlTokens)])
                entries == LongestSuffix(chunks[i], overlap, EntryTotal)
            IN SeedOf(chunks[i + 1])
                = IF overlap > 0
                  THEN Flatten([j \in 1..Len(entries) |-> entries[j].units])
                  ELSE <<>>

\* A flushed chunk that began with an overlap text of two units hands on a
\* seed of several entries; and one hands on less than the units that fit.
C13_Witness ==
    /\ chunkPc = "done"
    /\ overlap > 0
    /\ \E i \in FlushedChunks :
        /\ Len(SeedOf(chunks[i])) >= 2
        /\ Len(SeedOf(chunks[i + 1])) >= 1
        /\ SeedOf(chunks[i + 1]) # LongestSuffix(ChunkUnits(chunks[i]), overlap, UnitTotal)
    /\ \E i \in FlushedChunks : Len(SeedOf(chunks[i + 1])) >= 2

\* s is a suffix of t.
IsSuffix(s, t) == Len(s) <= Len(t) /\ Suffix(t, Len(t) - Len(s) + 1) = s

\* C14: called with overlap > 0 and returning two or more chunks, chunk_text
\* makes every chunk after the first begin with overlap content, a non-empty
\* piece of the tail of the chunk before it.
C14_LaterChunksBeginWithOverlap ==
    (chunkPc = "done" /\ overlap > 0 /\ Len(chunks) >= 2) =>
        \A i \in 2..Len(chunks) :
            /\ SeedOf(chunks[i]) # <<>>
            /\ IsSuffix(SeedOf(chunks[i]), ChunkUnits(chunks[i - 1]))

\* ---- oversized units

\* The units of the text that are larger than max_tokens: sentences, since a
\* paragraph that large is split, and a sentence has no boundary to split at.
OversizedUnits ==
    LET us == Units(text, max_tokens)
    IN { us[i] : i \in { j \in 1..Len(us) : us[j].tok > max_tokens } }

\* The call on the arguments at hand comes back with a list: the loops run
\* once per paragraph and sentence, and a chunk is flushed at most once per unit.
ChunkTextReturns ==
    Len(chunk_text(text, max_tokens, overlap, nlTokens)) \in 0..Len(Units(text, max_tokens))

\* The chunks that hold the unit as their own text (not as overlap).
ChunksOwning(u) ==
    { i \in 1..Len(chunks) : \E j \in 1..Len(OwnUnits(chunks[i])) : OwnUnits(chunks[i])[j] = u }

MaxJobs == 2

MaxCands == 3

DistDen == 100000

DistChoices == {0, 12345, 50000, 100000, 150000}

TopKChoices == {0, 1, 2, 5}

\* Identifiers an agent may pass: digit strings, signed or not, and other text.
IdChoices ==
    { [kind |-> "int", val |-> v] : v \in {-1, 0, 1, 2, 7} } \cup { [kind |-> "text", val |-> 0] }

\* metadata.get("candidate_name", "Unknown") / metadata.get("job_title", "Sample Position"):
\* document p carries the name p, except document 3, whose metadata has no name.
Unknown == 0

Metadata(p) == [has_name |-> p # 3, name |-> p]

DisplayName(metadata) == IF metadata.has_name THEN metadata.name ELSE Unknown

\* int(job_id): ValueError / TypeError for anything that is not an integer literal.
ParseInt(id) == [ok |-> id.kind = "int", val |-> id.val]

\* Mutant: the position parsed from the identifier is reported even when the
\* first record was used instead.
ResolveIndexKeepsParsed(id, n_docs) ==
    LET parsed == ParseInt(id)
    IN IF parsed.ok THEN parsed.val ELSE 0

\* Lines 43-64 / 149-174: the position reported as job_index / candidate_index.
ResolveIndex(id, n_docs) ==
    LET parsed == ParseInt(id)
    IN IF parsed.ok /\ 0 <= parsed.val /\ parsed.val < n_docs THEN parsed.val ELSE 0

\* Lines 43-63 / 149-173: the stored record (1..n_docs) whose text becomes
\* job_text / candidate_text; 0 stands for None.
QueryRecord(id, n_docs) ==
    LET parsed == ParseInt(id)
        job_text == IF parsed.ok /\ 0 <= parsed.val /\ parsed.val < n_docs
                    THEN parsed.val + 1 ELSE 0
    IN IF job_text = 0 THEN 1 ELSE job_text

Min(a, b) == IF a < b THEN a ELSE b

Max(a, b) == IF a > b THEN a ELSE b

\* round(x, 2) of x = num / DistDen percent, in hundredths: nearest, ties to even.
Round2(num) ==
    LET scaled == num * 100
        q == scaled \div DistDen
        r == scaled % DistDen
    IN IF 2 * r < DistDen THEN q
       ELSE IF 2 * r > DistDen THEN q + 1
       ELSE q + (q % 2)

\* Mutant: the clamp at 0 is missing.
SimilarityUnclamped(d) == (DistDen - d) * 100

\* similarity_score = max(0, (1 - distance) * 100), in 1 / DistDen percent.
Similarity(d) == Max(0, (DistDen - d) * 100)

similarity_score(d) == Round2(Similarity(d))

\* Mutant: the entries are re-sorted by descending distance before they are ranked.
RankEntriesReversed(answer) ==
    [i \in 1..Len(answer) |->
        [rank |-> i,
         id |-> i - 1,
         name |-> IF answer[Len(answer) + 1 - i].metadata.has_name
                  THEN answer[Len(answer) + 1 - i].metadata.name ELSE 0,
         similarity_score |-> similarity_score(answer[Len(answer) + 1 - i].distance)]]

\* The loop over zip(documents, metadatas, distances): one entry per triple.
RankEntries(answer) ==
    [i \in 1..Len(answer) |->
        [rank |-> i,
         id |-> i - 1,
         name |-> DisplayName(answer[i].metadata),
         similarity_score |-> similarity_score(answer[i].distance)]]

\* Mutant: top_k is passed on as it is.
NResultsUnclamped(top_k, count) == top_k

\* n_results=min(top_k, collection.count())
NResults(top_k, count) == Min(top_k, count)

\* What collection.query may return for a pool of n_pool documents when it
\* returns n of them: n distinct documents with their metadata and a distance
\* each.  The order and the distances are the index's.
Injective(f) == \A i, j \in DOMAIN f : i # j => f[i] # f[j]

QueryAnswers(n_pool, n) ==
    { [i \in 1..n |-> [doc |-> ds[i], metadata |-> Metadata(ds[i]), distance |-> dd[i]]] :
        ds \in { f \in [1..n -> 1..n_pool] : Injective(f) }, dd \in [1..n -> DistChoices] }

\* How many documents collection.query(n_results = n) may return: at most n.
AnswerSizes(n) == 0..n

\* The body of the try block.  n_query is the size of the collection the
\* identifier indexes, n_pool the size of the collection ranked against;
\* answer is the index's reply, used when the query is made.
\* collection.query raises for n_results <= 0 or larger than the pool can serve.
MatchBody(fn, id, top_k, n_query, n_pool, up, answer) ==
    IF ~up THEN [kind |-> "raise"]
    ELSE IF n_query = 0 THEN [kind |-> "error", reason |-> "nothing stored"]
    ELSE LET index == ResolveIndex(id, n_query)
             n_results == NResults(top_k, n_pool)
         IN IF n_results <= 0 THEN [kind |-> "raise"]
            ELSE IF answer = <<>> THEN [kind |-> "error", reason |-> "nothing to match"]
            ELSE [kind |-> "ok",
                  index |-> index,
                  ranking |-> RankEntries(answer),
                  total_analyzed |-> Len(answer)]

\* except Exception: the error is returned as {"error": ...}.
CatchAll(r) == IF r.kind = "raise" THEN [kind |-> "error", reason |-> "exception"] ELSE r

MatchTool(fn, id, top_k, n_query, n_pool, up, answer) ==
    CatchAll(MatchBody(fn, id, top_k, n_query, n_pool, up, answer))

\* Whether the body gets as far as collection.query with a valid n_results.
Queries(top_k, n_query, n_pool, up) == up /\ n_query > 0 /\ NResults(top_k, n_pool) > 0

InitRank ==
    /\ ParkedChunk
    /\ ParkedMongo
    /\ ParkedTracker
    /\ nJobs \in 0..MaxJobs
    /\ nCands \in 0..MaxCands
    /\ indexUp \in BOOLEAN
    /\ rankCall = NoCall
    /\ indexQuery = NoQuery
    /\ indexAnswer = <<>>
    /\ rankResult = NoCall
    /\ candidate_collection = <<>>

\* One tool call per behaviour: the tools keep no state between calls.
MatchCall(fn, n_query, n_pool) ==
    /\ rankCall = NoCall
    /\ \E id \in IdChoices, top_k \in TopKChoices :
        \E n_returned \in IF Queries(top_k, n_query, n_pool, indexUp)
                          THEN AnswerSizes(NResults(top_k, n_pool)) ELSE {0} :
        \E answer \in QueryAnswers(n_pool, n_returned) :
            /\ rankCall' = [fn |-> fn, id |-> id, top_k |-> top_k]
            /\ indexQuery' = IF indexUp /\ n_query > 0
                             THEN [made |-> TRUE,
                                   query_doc |-> QueryRecord(id, n_query),
                                   n_results |-> NResults(top_k, n_pool)]
                             ELSE NoQuery
            /\ indexAnswer' = answer
            /\ rankResult' = MatchTool(fn, id, top_k, n_query, n_pool, indexUp, answer)
            /\ UNCHANGED <<nJobs, nCands, indexUp, candidate_collection>>
            /\ UNCHANGED <<chunkVars, mongoVars, trackerVars>>

GetBestCandidatesForJob == MatchCall("get_best_candidates_for_job", nJobs, nCands)

GetBestJobsForCandidate == MatchCall("get_best_jobs_for_candidate", nCands, nJobs)

NextRank == GetBestCandidatesForJob \/ GetBestJobsForCandidate

SpecRank == InitRank /\ [][NextRank]_vars

\* ---- properties of the talent matcher

Called == rankCall.fn # "none"

Ranked == Called /\ rankResult.kind = "ok"

\* The size of the collection the last call's identifier indexes.
QuerySize == IF rankCall.fn = "get_best_candidates_for_job" THEN nJobs ELSE nCands

PoolSize == IF rankCall.fn = "get_best_candidates_for_job" THEN nCands ELSE nJobs

\* C3: for a distance in [0, 2] the reported score lies in [0, 100], is within
\* half a hundredth of max(0, (1 - d) * 100), is 100.00 for d = 0 and 0.00 for
\* every d >= 1.
C3_ScoreMapping ==
    Ranked =>
        \A i \in 1..Len(rankResult.ranking) :
            LET d == indexAnswer[i].distance
                s == rankResult.ranking[i].similarity_score
                exact == IF d >= DistDen THEN 0 ELSE (DistDen - d) * 10000
            IN (0 <= d /\ d <= 2 * DistDen) =>
                  /\ 0 <= s /\ s <= 10000
                  /\ 2 * (s * DistDen - exact) <= DistDen
                  /\ 2 * (exact - s * DistDen) <= DistDen
                  /\ (d = 0 => s = 10000)
                  /\ (d >= DistDen => s = 0)

C3_Witness ==
    /\ Ranked
    /\ Len(indexAnswer) >= 3
    /\ indexAnswer[1].distance = 0
    /\ indexAnswer[2].distance = 12345
    /\ indexAnswer[3].distance = 150000

\* C4: the ranks are 1..n, the entry of rank i is made from the i-th triple of
\* the index's answer (its name and its distance), and the scores do not
\* increase with the rank when the index's distances are ascending.
C4_RankOrder ==
    Ranked =>
        /\ Len(rankResult.ranking) = Len(indexAnswer)
        /\ \A i \in 1..Len(rankResult.ranking) :
              /\ rankResult.ranking[i].rank = i
              /\ rankResult.ranking[i].name = DisplayName(Metadata(indexAnswer[i].doc))
              /\ 2 * (rankResult.ranking[i].similarity_score * DistDen
                        - Max(0, (DistDen - indexAnswer[i].distance) * 10000)) <= DistDen
              /\ 2 * (Max(0, (DistDen - indexAnswer[i].distance) * 10000)
                        - rankResult.ranking[i].similarity_score * DistDen) <= DistDen
        /\ (\A i \in 1..(Len(indexAnswer) - 1) :
                indexAnswer[i].distance <= indexAnswer[i + 1].distance)
           => \A i \in 1..(Len(rankResult.ranking) - 1) :
                rankResult.ranking[i].similarity_score
                    >= rankResult.ranking[i + 1].similarity_score

C4_Witness ==
    /\ Ranked
    /\ Len(indexAnswer) >= 3
    /\ indexAnswer[1].doc = 2
    /\ indexAnswer[2].doc = 3
    /\ indexAnswer[3].doc = 1
    /\ indexAnswer[1].distance = 12345
    /\ indexAnswer[2].distance = 12345
    /\ indexAnswer[3].distance = 50000

\* The identifier of the last call selects a stored record.
Resolvable ==
    LET parsed == ParseInt(rankCall.id)
    IN parsed.ok /\ 0 <= parsed.val /\ parsed.val < QuerySize

\* C5: the tool returns an error result, and no ranking, whenever the
\* identifier selects no stored record or the pool to rank against is empty.
C5_UnresolvedIsError ==
    Called => ((~Resolvable \/ PoolSize = 0) => rankResult.kind = "error")

C17_TopKClamped ==
    /\ (Called /\ indexQuery.made) =>
          indexQuery.n_results = (IF rankCall.top_k <= PoolSize THEN rankCall.top_k ELSE PoolSize)
    /\ Ranked =>
          /\ Len(rankResult.ranking) <= rankCall.top_k
          /\ Len(rankResult.ranking) <= PoolSize
          /\ Len(indexAnswer) <= indexQuery.n_results
          /\ rankResult.total_analyzed = Len(rankResult.ranking)

\* top_k larger than the pool: the whole pool is ranked; and the index may
\* return fewer documents than it was asked for.
C17_Witness ==
    /\ Ranked
    /\ rankCall.top_k = 5
    /\ PoolSize = 3
    /\ indexQuery.n_results = 3
    /\ Len(rankResult.ranking) = 3
    /\ rankResult.total_analyzed = 3

\* ------------------------------------------------------------------------
\* Document store: insert_candidate_to_mongo_dict
\*
\* A collection is the sequence of its documents.  The server keeps _id
\* unique: insert_one raises DuplicateKeyError for an _id already stored.
\* A field value is absent (or "", both falsy), a phone string (a number,
\* possibly with whitespace around it; number 0 with whitespace is a
\* whitespace-only string) or a generated identifier.
\* ------------------------------------------------------------------------

MaxCalls == 3

MaxTime == 1

Missing == "<missing>"

\* "candidate_name": null in the extracted JSON (None).
Null == "<null>"

phone_keys == <<"candidate_phone", "phone", "phone_number", "contact_phone">>

NoValue == [kind |-> "none", num |-> 0, pad |-> FALSE, name |-> "", t |-> 0]

RawPhone(n, pad) == [kind |-> "raw", num |-> n, pad |-> pad, name |-> "", t |-> 0]

\* f"generated_{candidate_name.replace(' ', '_')}_{int(time.time())}"
GeneratedPhone(name, t) == [kind |-> "gen", num |-> 0, pad |-> FALSE, name |-> name, t |-> t]

\* Python truth of a field value: an absent key and "" are falsy.
Truthy(v) == v.kind # "none"

\* str(value).strip()
Strip(v) ==
    IF v.kind = "raw" THEN (IF v.num = 0 THEN NoValue ELSE RawPhone(v.num, FALSE)) ELSE v

\* hashlib.sha256(...).hexdigest(), taken as collision-free.
generate_unique_id(key) == [sha256 |-> key]

NoId == [sha256 |-> NoValue]

PhoneDict(cp, ph, pn, ct) ==
    [candidate_phone |-> cp, phone |-> ph, phone_number |-> pn, contact_phone |-> ct]

PhoneDictChoices ==
    { PhoneDict(RawPhone(1, FALSE), NoValue, NoValue, NoValue),
      PhoneDict(RawPhone(2, FALSE), NoValue, NoValue, NoValue),
      PhoneDict(NoValue, RawPhone(1, TRUE), NoValue, NoValue),
      PhoneDict(NoValue, NoValue, NoValue, NoValue),
      PhoneDict(RawPhone(0, TRUE), NoValue, NoValue, RawPhone(2, FALSE)) }

NameChoices == {"Ann", "Bob", Missing, Null}

CandidateInputs ==
    { [candidate_name |-> n, phones |-> ph, _id |-> NoId] : n \in NameChoices, ph \in PhoneDictChoices }

\* Mutant: the value is used as it is, without strip().
RECURSIVE FirstPhoneFromUnstripped(_, _)
FirstPhoneFromUnstripped(phones, i) ==
    IF i > Len(phone_keys) THEN NoValue
    ELSE IF Truthy(phones[phone_keys[i]]) THEN phones[phone_keys[i]]
    ELSE FirstPhoneFromUnstripped(phones, i + 1)

\* Lines 47-54: the first accepted key with a truthy value, stripped.
RECURSIVE FirstPhoneFrom(_, _)
FirstPhoneFrom(phones, i) ==
    IF i > Len(phone_keys) THEN NoValue
    ELSE IF Truthy(phones[phone_keys[i]]) THEN Strip(phones[phone_keys[i]])
    ELSE FirstPhoneFrom(phones, i + 1)

\* Lines 45-69: the name used for the lookup and the document to store.
\* candidate_name.replace (line 61) raises AttributeError on None.
PrepareCandidate(d, t) ==
    LET candidate_name == IF d.candidate_name = Missing THEN "Unknown" ELSE d.candidate_name
        found == FirstPhoneFrom(d.phones, 1)
        generated == ~Truthy(found)
        phone_number == IF generated THEN GeneratedPhone(candidate_name, t) ELSE found
        phones1 == IF generated THEN [d.phones EXCEPT !.candidate_phone = phone_number]
                   ELSE d.phones
    IN [candidate_name |-> candidate_name,
        raises |-> generated /\ candidate_name = Null,
        doc |-> [candidate_name |-> d.candidate_name,
                 phones |-> phones1,
                 _id |-> generate_unique_id(phone_number)]]

\* collection.find_one({"candidate_name": name}): a document without the field
\* does not match a name; the filter null matches a null field and a missing one.
FindOneByName(store, name) ==
    \E i \in 1..Len(store) :
        IF name = Null THEN store[i].candidate_name \in {Null, Missing}
        ELSE store[i].candidate_name = name

\* collection.find_one({"_id": id})
FindOneById(store, id) == \E i \in 1..Len(store) : store[i]._id = id

\* collection.insert_one(doc): DuplicateKeyError when the _id is stored already.
InsertOne(store, doc) ==
    IF FindOneById(store, doc._id) THEN [ok |-> FALSE, store |-> store]
    ELSE [ok |-> TRUE, store |-> Append(store, doc)]

\* Mutant: the duplicate test looks at the id only.
IsDuplicateByIdOnly(existing_by_name, existing_by_id) == existing_by_id

\* Mutant: the duplicate test looks at the name only.
IsDuplicateByNameOnly(existing_by_name, existing_by_id) == existing_by_name

\* Line 88: the duplicate test.
IsDuplicate(existing_by_name, existing_by_id) == existing_by_name \/ existing_by_id

\* Mutant: an exception of the store is raised again, as insert_job_to_mongo_dict
\* does.
insert_candidate_reraising(store, d, t, up) ==
    LET prepared == PrepareCandidate(d, t)
        inserted == InsertOne(store, prepared.doc)
    IN IF prepared.raises THEN [store |-> store, outcome |-> "error"]
       ELSE IF ~up THEN [store |-> store, outcome |-> "raised"]
       ELSE IF IsDuplicate(FindOneByName(store, prepared.candidate_name),
                           FindOneById(store, prepared.doc._id))
       THEN [store |-> store, outcome |-> "skipped"]
       ELSE IF inserted.ok THEN [store |-> inserted.store, outcome |-> "inserted"]
       ELSE [store |-> store, outcome |-> "raised"]

\* insert_candidate_to_mongo_dict run without interruption.  Every exception of
\* the store is caught (lines 98-100), every other one at lines 102-105, and
\* reported in the returned string.
insert_candidate_to_mongo_dict(store, d, t, up) ==
    LET prepared == PrepareCandidate(d, t)
        inserted == InsertOne(store, prepared.doc)
    IN IF prepared.raises THEN [store |-> store, outcome |-> "error"]
       ELSE IF ~up THEN [store |-> store, outcome |-> "failed"]
       ELSE IF IsDuplicate(FindOneByName(store, prepared.candidate_name),
                           FindOneById(store, prepared.doc._id))
       THEN [store |-> store, outcome |-> "skipped"]
       ELSE IF inserted.ok THEN [store |-> inserted.store, outcome |-> "inserted"]
       ELSE [store |-> store, outcome |-> "failed"]

InitCand ==
    /\ ParkedChunk
    /\ ParkedRank
    /\ ParkedTracker
    /\ candStore = <<>>
    /\ jobStore = <<>>
    /\ storeUp = TRUE
    /\ now = 0
    /\ mongoCall = NoMongoCall
    /\ procs = <<>>

InsertCandidate ==
    /\ mongoCall.n < MaxCalls
    /\ \E d \in CandidateInputs :
        LET r == insert_candidate_to_mongo_dict(candStore, d, now, storeUp)
        IN /\ candStore' = r.store
           /\ mongoCall' = [n |-> mongoCall.n + 1, fn |-> "insert_candidate",
                            input |-> d, outcome |-> r.outcome]
    /\ UNCHANGED <<jobStore, storeUp, now, procs>>
    /\ UNCHANGED <<chunkVars, rankVars, trackerVars>>

\* The server becomes unreachable, or reachable again.
StoreFlips ==
    /\ storeUp' = ~storeUp
    /\ UNCHANGED <<candStore, jobStore, now, mongoCall, procs>>
    /\ UNCHANGED <<chunkVars, rankVars, trackerVars>>

\* A second passes.
Tick ==
    /\ now < MaxTime
    /\ now' = now + 1
    /\ UNCHANGED <<candStore, jobStore, storeUp, mongoCall, procs>>
    /\ UNCHANGED <<chunkVars, rankVars, trackerVars>>

NextCand == InsertCandidate \/ StoreFlips \/ Tick

SpecCand == InitCand /\ [][NextCand]_vars

\* ---- properties of sequential candidate insertion

\* The phone number the routine derives from a dict (its natural key).
PhoneNumber(d) == FirstPhoneFrom(d.phones, 1)

CandidateCallStep ==
    mongoCall'.n = mongoCall.n + 1 /\ mongoCall'.fn = "insert_candidate"

\* C6, first part: a call for a candidate stored under neither its id nor its
\* name inserts it; a call that follows an inserting call with the same phone
\* number is skipped (or fails, when the store is unreachable) and leaves the
\* store as it is.
C6_SecondCallSkipped ==
    CandidateCallStep =>
        LET d == mongoCall'.input
            prepared == PrepareCandidate(d, now)
        IN /\ (/\ storeUp
               /\ ~prepared.raises
               /\ ~FindOneByName(candStore, prepared.candidate_name)
               /\ ~FindOneById(candStore, prepared.doc._id))
              => /\ mongoCall'.outcome = "inserted"
                 /\ candStore' = Append(candStore, prepared.doc)
           /\ (/\ mongoCall.fn = "insert_candidate"
               /\ mongoCall.outcome = "inserted"
               /\ PhoneNumber(d).kind = "raw"
               /\ PhoneNumber(d) = PhoneNumber(mongoCall.input))
              => /\ candStore' = candStore
                 /\ mongoCall'.outcome = (IF storeUp THEN "skipped" ELSE "failed")

\* C6, second part: the store holds at most one record per _id.
OneRecordPerId(store) ==
    \A i, j \in 1..Len(store) : store[i]._id = store[j]._id => i = j

\* C6: strict skip policy of sequential candidate insertion.
C6_StrictSkip == [](OneRecordPerId(candStore)) /\ [][C6_SecondCallSkipped]_vars

C6_Witness ==
    /\ mongoCall.fn = "insert_candidate"
    /\ mongoCall.n = 2
    /\ mongoCall.outcome = "skipped"
    /\ Len(candStore) = 1
    /\ candStore[1].candidate_name = "Ann"
    /\ mongoCall.input.candidate_name = "Bob"
    /\ PhoneNumber(mongoCall.input) = PhoneNumber(candStore[1])
    /\ mongoCall.input.phones # candStore[1].phones

\* The records that carry the candidate_name (a record stored without the
\* field carries none).
RecordsNamed(store, name) == { i \in 1..Len(store) : store[i].candidate_name = name }

\* A call that gets as far as the lookups inserts only if neither the lookup
\* by name nor the lookup by id finds a record, and is skipped otherwise.
C18_InsertsOnlyIfNeitherFound ==
    CandidateCallStep =>
        LET d == mongoCall'.input
            prepared == PrepareCandidate(d, now)
            by_name == \E i \in 1..Len(candStore) :
                          \/ candStore[i].candidate_name = prepared.candidate_name
                          \/ /\ prepared.candidate_name = Null
                             /\ candStore[i].candidate_name = Missing
            by_id == \E i \in 1..Len(candStore) : candStore[i]._id = prepared.doc._id
        IN /\ candStore' # candStore => (~by_name /\ ~by_id /\ mongoCall'.outcome = "inserted")
           /\ (storeUp /\ ~prepared.raises /\ (by_name \/ by_id))
                 => (mongoCall'.outcome = "skipped" /\ candStore' = candStore)

\* C18: sequential candidate insertion looks up by id and by exact name and
\* inserts only if neither finds a record: a record with the name of a stored
\* candidate and another phone number is skipped, and the store never holds
\* two records with the same candidate_name.
C18_NameAndIdLookup ==
    /\ [](\A i, j \in 1..Len(candStore) :
            (candStore[i].candidate_name = candStore[j].candidate_name
                /\ candStore[i].candidate_name # Missing) => i = j)
    /\ [][C18_InsertsOnlyIfNeitherFound]_vars

\* A second record for "Ann" with another phone number (another _id) was skipped.
C18_Witness ==
    /\ mongoCall.fn = "insert_candidate"
    /\ mongoCall.n = 2
    /\ mongoCall.outcome = "skipped"
    /\ Len(candStore) = 1
    /\ candStore[1].candidate_name = "Ann"
    /\ mongoCall.input.candidate_name = "Ann"
    /\ PhoneNumber(mongoCall.input).kind = "raw"
    /\ PhoneNumber(candStore[1]).kind = "raw"
    /\ PhoneNumber(mongoCall.input) # PhoneNumber(candStore[1])

\* Two records stored without a candidate_name: the lookup by the default
\* name "Unknown" matches neither.
TwoNamelessRecords == Cardinality(RecordsNamed(candStore, Missing)) >= 2

\* The dict has no phone number under any of the accepted keys.
NoPhone(d) == \A i \in 1..Len(phone_keys) : d.phones[phone_keys[i]].kind = "none"

\* C19: a record without a phone number under any accepted key is not
\* rejected: the call generates the fallback identifier, goes on to the
\* duplicate check and the insert, and a record it inserts carries the
\* fallback as candidate_phone and its hash as _id.
C19_NoPhoneFallback ==
    [][(CandidateCallStep /\ NoPhone(mongoCall'.input)) =>
          LET d == mongoCall'.input
              name == IF d.candidate_name = Missing THEN "Unknown" ELSE d.candidate_name
              fallback == GeneratedPhone(name, now)
          IN /\ mongoCall'.outcome \in {"inserted", "skipped", "failed"}
             /\ mongoCall'.outcome = "failed" => ~storeUp
             /\ mongoCall'.outcome = "inserted" =>
                  /\ candStore' # candStore
                  /\ candStore'[Len(candStore')].phones.candidate_phone = fallback
                  /\ candStore'[Len(candStore')]._id = [sha256 |-> fallback]]_vars

\* ------------------------------------------------------------------------
\* Two concurrent callers of insert_candidate_to_mongo_dict.  Each store
\* operation is atomic at the server; the caller may be preempted between
\* them.
\* ------------------------------------------------------------------------

Procs == {1, 2}

\* existing_by_name / existing_by_id are "unset" until the lookup has returned.
ProcStart(d) ==
    [pc |-> "start", input |-> d, candidate_name |-> "", doc |-> d,
     existing_by_name |-> "unset", existing_by_id |-> "unset", outcome |-> "none"]

InitConc ==
    /\ ParkedChunk
    /\ ParkedRank
    /\ ParkedTracker
    /\ candStore = <<>>
    /\ jobStore = <<>>
    /\ storeUp = TRUE
    /\ now = 0
    /\ mongoCall = NoMongoCall
    /\ procs \in [Procs -> { ProcStart(d) : d \in CandidateInputs }]

ConcFrame ==
    /\ UNCHANGED <<jobStore, storeUp, now, mongoCall>>
    /\ UNCHANGED <<chunkVars, rankVars, trackerVars>>

Found(b) == IF b THEN "found" ELSE "none"

\* Lines 45-79: the identifier and the document are made ready.
Prepare(p) ==
    /\ procs[p].pc = "start"
    /\ LET prepared == PrepareCandidate(procs[p].input, now)
       IN procs' = IF prepared.raises
                   THEN [procs EXCEPT ![p].pc = "done", ![p].outcome = "error"]
                   ELSE [procs EXCEPT ![p].pc = "find_name",
                                      ![p].candidate_name = prepared.candidate_name,
                                      ![p].doc = prepared.doc]
    /\ UNCHANGED candStore
    /\ ConcFrame

\* Line 85: existing_by_name = collection.find_one({"candidate_name": ...})
FindByName(p) ==
    /\ procs[p].pc = "find_name"
    /\ procs' = IF storeUp
                THEN [procs EXCEPT ![p].pc = "find_id",
                                   ![p].existing_by_name =
                                       Found(FindOneByName(candStore, procs[p].candidate_name))]
                ELSE [procs EXCEPT ![p].pc = "done", ![p].outcome = "failed"]
    /\ UNCHANGED candStore
    /\ ConcFrame

\* Lines 86-92: existing_by_id = collection.find_one({"_id": ...}) and the test.
FindById(p) ==
    /\ procs[p].pc = "find_id"
    /\ procs' = IF ~storeUp
                THEN [procs EXCEPT ![p].pc = "done", ![p].outcome = "failed"]
                ELSE LET by_id == FindOneById(candStore, procs[p].doc._id)
                     IN IF IsDuplicate(procs[p].existing_by_name = "found", by_id)
                        THEN [procs EXCEPT ![p].pc = "done",
                                           ![p].existing_by_id = Found(by_id),
                                           ![p].outcome = "skipped"]
                        ELSE [procs EXCEPT ![p].pc = "insert",
                                           ![p].existing_by_id = Found(by_id)]
    /\ UNCHANGED candStore
    /\ ConcFrame

\* Lines 94-100: collection.insert_one(data_dict); its exception is caught.
Insert(p) ==
    /\ procs[p].pc = "insert"
    /\ LET r == InsertOne(candStore, procs[p].doc)
       IN IF storeUp /\ r.ok
          THEN /\ candStore' = r.store
               /\ procs' = [procs EXCEPT ![p].pc = "done", ![p].outcome = "inserted"]
          ELSE /\ candStore' = candStore
               /\ procs' = [procs EXCEPT ![p].pc = "done", ![p].outcome = "failed"]
    /\ ConcFrame

\* The store stays reachable while the two calls race.
NextConc ==
    \/ \E p \in Procs : Prepare(p)
    \/ \E p \in Procs : FindByName(p)
    \/ \E p \in Procs : FindById(p)
    \/ \E p \in Procs : Insert(p)
    \/ Tick

SpecConc == InitConc /\ [][NextConc]_vars

\* ---- properties of concurrent candidate insertion

\* The natural key of a candidate document: its phone number, that is the
\* first non-empty phone field without the whitespace around it.
NaturalKey(doc) ==
    LET present == { i \in 1..Len(phone_keys) : doc.phones[phone_keys[i]].kind # "none" }
        first == CHOOSE i \in present : \A j \in present : i <= j
        value == doc.phones[phone_keys[first]]
    IN IF present = {} THEN NoValue
       ELSE IF value.kind = "raw" /\ value.num = 0 THEN NoValue
       ELSE [value EXCEPT !.pad = FALSE]

RecordsWithKey(store, key) == { i \in 1..Len(store) : NaturalKey(store[i]) = key }

AllDone == \A p \in Procs : procs[p].pc = "done"

\* Both callers carry the same natural key and both lookups of both found nothing.
RacedOnSameKey ==
    /\ AllDone
    /\ NaturalKey(procs[1].doc) = NaturalKey(procs[2].doc)
    /\ \A p \in Procs : procs[p].existing_by_name = "none" /\ procs[p].existing_by_id = "none"

\* C8 as stated: when both lookups of two concurrent calls for the same natural
\* key observe "not found", both inserts take effect and the store holds a
\* duplicate record for that key.
C8_BothInsertsTakeEffect ==
    RacedOnSameKey =>
        /\ \A p \in Procs : procs[p].outcome = "inserted"
        /\ Cardinality(RecordsWithKey(candStore, NaturalKey(procs[1].doc))) = 2

\* C8 amended: the lookup-then-insert is not atomic, both callers can pass the
\* lookups, but the store never holds two records with one natural key: of two
\* callers that both saw "not found" exactly one inserts and the other's
\* insert_one is rejected and reported as a failure.
C8_RaceRejectedByStore ==
    /\ \A i, j \in 1..Len(candStore) :
          NaturalKey(candStore[i]) = NaturalKey(candStore[j]) => i = j
    /\ RacedOnSameKey =>
          /\ Cardinality({ p \in Procs : procs[p].outcome = "inserted" }) = 1
          /\ Cardinality({ p \in Procs : procs[p].outcome = "failed" }) = 1
          /\ Cardinality(RecordsWithKey(candStore, NaturalKey(procs[1].doc))) = 1

C8_Witness ==
    /\ RacedOnSameKey
    /\ procs[1].input.candidate_name = "Ann"
    /\ procs[2].input.candidate_name = "Bob"
    /\ procs[1].input.phones # procs[2].input.phones
    /\ procs[2].outcome = "inserted"

\* Reachable under SpecConc (its negation is violated): two callers with the
\* same name and different phone numbers both insert.
DuplicateName ==
    \E i, j \in 1..Len(candStore) :
        i # j /\ candStore[i].candidate_name = candStore[j].candidate_name
              /\ candStore[i].candidate_name # Missing

\* ------------------------------------------------------------------------
\* Document store: insert_job_to_mongo_dict
\*
\* job_title and company_name are strings, kept as sequences of characters:
\* the identifier hashes their concatenation around "_".
\* ------------------------------------------------------------------------

TitleChoices == { <<"a">>, <<"a", "_", "b">> }

CompanyChoices == { <<"c">>, <<"b", "_", "c">> }

VersionChoices == {1, 2}

\* A job dict: the two required keys may be absent; version stands for the
\* rest of the posting (skills, location, ...).
JobInputs ==
    { [has_title |-> ht, job_title |-> t, has_company |-> hc, company_name |-> c,
       version |-> v, _id |-> NoId] :
        ht \in BOOLEAN, t \in TitleChoices, hc \in BOOLEAN, c \in CompanyChoices,
        v \in VersionChoices }

\* Lines 118-120: f"{job_title}_{company_name}" hashed.
JobId(d) == generate_unique_id(d.job_title \o <<"_">> \o d.company_name)

\* The position of the document with this _id.
PositionOf(store, id) == CHOOSE i \in 1..Len(store) : store[i]._id = id

\* Mutant: the job is stored with replace_one(..., upsert=True).
insert_job_replacing(store, d, up) ==
    LET doc == [d EXCEPT !._id = JobId(d)]
    IN IF ~d.has_title \/ ~d.has_company THEN [store |-> store, outcome |-> "raised"]
       ELSE IF ~up THEN [store |-> store, outcome |-> "raised"]
       ELSE IF FindOneById(store, doc._id)
       THEN [store |-> [store EXCEPT ![PositionOf(store, doc._id)] = doc],
             outcome |-> "replaced"]
       ELSE [store |-> Append(store, doc), outcome |-> "inserted"]

\* insert_job_to_mongo_dict: ValueError for a missing required key; an
\* exception of the store is re-raised (lines 146-148); a stored _id means
\* the call returns without writing (lines 137-142).
insert_job_to_mongo_dict(store, d, up) ==
    LET doc == [d EXCEPT !._id = JobId(d)]
        inserted == InsertOne(store, doc)
    IN IF ~d.has_title \/ ~d.has_company THEN [store |-> store, outcome |-> "raised"]
       ELSE IF ~up THEN [store |-> store, outcome |-> "raised"]
       ELSE IF FindOneById(store, doc._id) THEN [store |-> store, outcome |-> "skipped"]
       ELSE IF inserted.ok THEN [store |-> inserted.store, outcome |-> "inserted"]
       ELSE [store |-> store, outcome |-> "raised"]

InitJob ==
    /\ ParkedChunk
    /\ ParkedRank
    /\ ParkedTracker
    /\ candStore = <<>>
    /\ jobStore = <<>>
    /\ storeUp = TRUE
    /\ now = 0
    /\ mongoCall = NoMongoCall
    /\ procs = <<>>

InsertJob ==
    /\ mongoCall.n < MaxCalls
    /\ \E d \in JobInputs :
        LET r == insert_job_to_mongo_dict(jobStore, d, storeUp)
        IN /\ jobStore' = r.store
           /\ mongoCall' = [n |-> mongoCall.n + 1, fn |-> "insert_job",
                            input |-> d, outcome |-> r.outcome]
    /\ UNCHANGED <<candStore, storeUp, now, procs>>
    /\ UNCHANGED <<chunkVars, rankVars, trackerVars>>

NextJob == InsertJob \/ StoreFlips

SpecJob == InitJob /\ [][NextJob]_vars

\* ---- properties of job insertion

\* A call for a job whose hash id is stored already has returned.
JobCallOnStoredId ==
    /\ mongoCall'.n = mongoCall.n + 1
    /\ mongoCall'.fn = "insert_job"
    /\ mongoCall'.outcome # "raised"
    /\ FindOneById(jobStore, JobId(mongoCall'.input))

RecordsWithId(store, id) == { i \in 1..Len(store) : store[i]._id = id }

C28_SameIdSameTitleAndCompany ==
    [][(/\ mongoCall'.n = mongoCall.n + 1
        /\ mongoCall'.fn = "insert_job"
        /\ mongoCall'.outcome = "skipped")
       => \A i \in 1..Len(jobStore) :
            jobStore[i]._id = JobId(mongoCall'.input) =>
               /\ jobStore[i].job_title = mongoCall'.input.job_title
               /\ jobStore[i].company_name = mongoCall'.input.company_name]_vars

\* ---- the two insertion routines on one store

NextStore == InsertCandidate \/ InsertJob \/ StoreFlips

SpecStore == InitJob /\ [][NextStore]_vars

\* A call of one of the two routines made while the server was unreachable.
CallOnUnreachableStore ==
    /\ mongoCall'.n = mongoCall.n + 1
    /\ mongoCall'.fn \in {"insert_candidate", "insert_job"}
    /\ ~storeUp

\* C24 as stated: with the store unreachable both routines leave by an
\* exception, and no record is written.
C24_StoreFailurePropagates ==
    [][CallOnUnreachableStore =>
          /\ mongoCall'.outcome = "raised"
          /\ candStore' = candStore
          /\ jobStore' = jobStore]_vars

\* C24 amended: with the store unreachable insert_job_to_mongo_dict leaves by
\* an exception, and insert_candidate_to_mongo_dict returns a string that
\* reports the failure; neither writes a record, and neither tries again.
C24_JobRaisesCandidateReports ==
    [][CallOnUnreachableStore =>
          /\ mongoCall'.fn = "insert_job" => mongoCall'.outcome = "raised"
          /\ mongoCall'.fn = "insert_candidate" => mongoCall'.outcome \in {"failed", "error"}
          /\ (mongoCall'.fn = "insert_candidate"
                /\ ~PrepareCandidate(mongoCall'.input, now).raises) =>
               mongoCall'.outcome = "failed"
          /\ candStore' = candStore
          /\ jobStore' = jobStore]_vars

C24_Witness ==
    /\ ~storeUp
    /\ mongoCall.fn = "insert_candidate"
    /\ mongoCall.outcome = "failed"
    /\ mongoCall.n = 3
    /\ mongoCall.input.candidate_name = "Ann"
    /\ Len(jobStore) = 1
    /\ candStore = <<>>

\* The job routine has raised for a complete job on an unreachable store.
JobRaisedOnUnreachableStore ==
    /\ ~storeUp
    /\ mongoCall.fn = "insert_job"
    /\ mongoCall.outcome = "raised"
    /\ mongoCall.input.has_title
    /\ mongoCall.input.has_company
    /\ Len(candStore) = 1

\* ------------------------------------------------------------------------
\* The agent-facing tools: safe_insert_candidate and safe_insert_job
\*
\* The argument is a Python value: None, an int, a dict or a str.  A str is
\* its length, the shape of its content and, for a JSON object, the dict
\* json.loads makes of it; a str that is not whitespace only carries no
\* whitespace around it.  A returned message is its wording and the length
\* it states (0 when it states none).
\* ------------------------------------------------------------------------

MaxToolCalls == 2

\* Line 94 of resume_parser_agent.py: len(data) > 2000.
MaxDataLen == 2000

DataLenChoices == {40, MaxDataLen, MaxDataLen + 1}

\* What json.loads makes of the text: whitespace only, cut inside a string
\* ("Unterminated string ..."), a syntax error ("Expecting ..."), another
\* JSONDecodeError ("Extra data ..."), a JSON array, a JSON object.
BodyChoices == {"blank", "truncated", "syntax", "extra_data", "array", "object"}

SkillsChoices == {"strings", "mixed"}

ToolData(type, truthy, len, body, obj) ==
    [type |-> type, truthy |-> truthy, len |-> len, body |-> body, obj |-> obj]

NoCandidate == [candidate_name |-> Missing,
                phones |-> PhoneDict(NoValue, NoValue, NoValue, NoValue),
                _id |-> NoId, candidate_skills |-> "strings"]

NoJob == [has_title |-> FALSE, job_title |-> <<"a">>, has_company |-> FALSE,
          company_name |-> <<"c">>, version |-> 1, _id |-> NoId]

\* None, 0, 5, a dict of one key, "".
NonStringData(none) ==
    { ToolData("NoneType", FALSE, 0, "none", none),
      ToolData("int", FALSE, 0, "none", none),
      ToolData("int", TRUE, 0, "none", none),
      ToolData("dict", TRUE, 1, "none", none),
      ToolData("str", FALSE, 0, "blank", none) }

CandidateObjects ==
    { [candidate_name |-> d.candidate_name, phones |-> d.phones, _id |-> d._id,
       candidate_skills |-> s] : d \in CandidateInputs, s \in SkillsChoices }

CandidateToolData ==
    NonStringData(NoCandidate)
    \cup { ToolData("str", TRUE, n, b, NoCandidate) :
             n \in DataLenChoices, b \in BodyChoices \ {"object"} }
    \cup { ToolData("str", TRUE, n, "object", o) :
             n \in DataLenChoices, o \in CandidateObjects }

JobToolData ==
    NonStringData(NoJob)
    \cup { ToolData("str", TRUE, n, b, NoJob) :
             n \in DataLenChoices, b \in BodyChoices \ {"object"} }
    \cup { ToolData("str", TRUE, n, "object", o) :
             n \in DataLenChoices, o \in JobInputs }

\* len(x) is defined for a str and a dict, and raises TypeError for an int
\* and for None.
HasLen(data) == data.type \in {"str", "dict"}

Message(wording, len) == [text |-> wording, len |-> len]

Returned(store, msg, lookups, inserts) ==
    [store |-> store, raised |-> FALSE, message |-> msg,
     lookups |-> lookups, inserts |-> inserts]

Raised(store) ==
    [store |-> store, raised |-> TRUE, message |-> Message("none", 0),
     lookups |-> 0, inserts |-> 0]

\* prepare_candidate_data_dict (lines 22-72) for a parsed dict: ", ".join of
\* a candidate_skills list with an element that is not a str raises, and
\* the function returns None; the skills are left out of the stored record.
prepare_candidate_data_dict(obj) ==
    [ok |-> obj.candidate_skills # "mixed",
     dict |-> [candidate_name |-> obj.candidate_name, phones |-> obj.phones,
               _id |-> obj._id]]

\* The calls insert_candidate_to_mongo_dict makes on the collection: none
\* when it failed before the connection, the first find_one when the server
\* is away, both find_one otherwise, and insert_one after them.
CandidateLookups(outcome, up) ==
    IF outcome = "error" THEN 0 ELSE IF ~up THEN 1 ELSE 2

\* Line 84, before the try block: len(data) if data else 0.
Line84Raises(data) == data.truthy /\ ~HasLen(data)

\* Line 94.
TooLarge(data) == data.len > MaxDataLen

\* safe_insert_candidate, lines 75-175.
safe_insert_candidate(store, data, t, up) ==
    LET prepared == prepare_candidate_data_dict(data.obj)
        r == insert_candidate_to_mongo_dict(store, prepared.dict, t, up)
    IN IF Line84Raises(data) THEN Raised(store)
       ELSE IF ~data.truthy \/ data.type # "str"
       THEN Returned(store, Message("no_data", 0), 0, 0)
       ELSE IF TooLarge(data)
       THEN Returned(store, Message("too_large", data.len), 0, 0)
       ELSE IF data.body = "blank"
       THEN Returned(store, Message("empty_after_cleaning", 0), 0, 0)
       ELSE IF data.body = "truncated"
       THEN Returned(store, Message("truncated", data.len), 0, 0)
       ELSE IF data.body = "syntax"
       THEN Returned(store, Message("syntax_error", 0), 0, 0)
       ELSE IF data.body = "extra_data"
       THEN Returned(store, Message("parsing_failed", data.len), 0, 0)
       ELSE IF data.body = "array"
       THEN Returned(store, Message("unexpected_error", 0), 0, 0)
       ELSE IF data.obj.candidate_name = Missing
       THEN Returned(store, Message("missing_fields", 0), 0, 0)
       ELSE IF ~prepared.ok
       THEN Returned(store, Message("prepare_failed", 0), 0, 0)
       ELSE Returned(r.store, Message(r.outcome, 0),
                     CandidateLookups(r.outcome, up),
                     IF r.outcome = "inserted" THEN 1 ELSE 0)

\* The calls insert_job_to_mongo_dict makes on the collection.
JobLookups(d, up) == IF ~d.has_title \/ ~d.has_company THEN 0 ELSE 1

\* safe_insert_job, lines 8-41: the value of insert_job_to_mongo_dict is not
\* looked at, an exception of it is reported in the returned string.
safe_insert_job(store, data, up) ==
    LET r == insert_job_to_mongo_dict(store, data.obj, up)
    IN IF ~data.truthy \/ data.type # "str"
       THEN Returned(store, Message("no_data", 0), 0, 0)
       ELSE IF data.body = "truncated"
       THEN Returned(store, Message("truncated", 0), 0, 0)
       ELSE IF data.body \in {"blank", "syntax", "extra_data"}
       THEN Returned(store, Message("invalid_json", 0), 0, 0)
       ELSE IF data.body = "array"
       THEN Returned(store, Message("insert_error", 0), 0, 0)
       ELSE IF r.outcome = "raised"
       THEN Returned(store, Message("insert_error", 0), JobLookups(data.obj, up), 0)
       ELSE Returned(r.store, Message("success", 0), JobLookups(data.obj, up),
                     IF r.outcome = "inserted" THEN 1 ELSE 0)

InitSafe ==
    /\ ParkedChunk
    /\ ParkedRank
    /\ ParkedTracker
    /\ candStore = <<>>
    /\ jobStore = <<>>
    /\ storeUp = TRUE
    /\ now = 0
    /\ mongoCall = NoMongoCall
    /\ procs = <<>>

SafeInsertCandidate ==
    /\ mongoCall.n < MaxToolCalls
    /\ \E data \in CandidateToolData :
        LET r == safe_insert_candidate(candStore, data, now, storeUp)
        IN /\ candStore' = r.store
           /\ mongoCall' = [n |-> mongoCall.n + 1, fn |-> "safe_insert_candidate",
                            input |-> data, raised |-> r.raised,
                            message |-> r.message, lookups |-> r.lookups,
                            inserts |-> r.inserts]
    /\ UNCHANGED <<jobStore, storeUp, now, procs>>
    /\ UNCHANGED <<chunkVars, rankVars, trackerVars>>

SafeInsertJob ==
    /\ mongoCall.n < MaxToolCalls
    /\ \E data \in JobToolData :
        LET r == safe_insert_job(jobStore, data, storeUp)
        IN /\ jobStore' = r.store
           /\ mongoCall' = [n |-> mongoCall.n + 1, fn |-> "safe_insert_job",
                            input |-> data, raised |-> r.raised,
                            message |-> r.message, lookups |-> r.lookups,
                            inserts |-> r.inserts]
    /\ UNCHANGED <<candStore, storeUp, now, procs>>
    /\ UNCHANGED <<chunkVars, rankVars, trackerVars>>

NextSafe == SafeInsertCandidate \/ SafeInsertJob \/ StoreFlips

SpecSafe == InitSafe /\ [][NextSafe]_vars

\* ---- properties of the agent-facing tools

ToolCallStep ==
    /\ mongoCall'.n = mongoCall.n + 1
    /\ mongoCall'.fn \in {"safe_insert_candidate", "safe_insert_job"}

ErrorWordings ==
    {"no_data", "too_large", "empty_after_cleaning", "truncated", "syntax_error",
     "parsing_failed", "unexpected_error", "missing_fields", "invalid_json"}

\* The input is empty or not parsable as JSON.
EmptyOrUnparsable(data) ==
    \/ ~data.truthy
    \/ data.type = "str" /\ data.body \in {"blank", "truncated", "syntax", "extra_data"}

\* The malformed inputs the tools are to turn away.
Malformed(fn, data) ==
    \/ EmptyOrUnparsable(data)
    \/ /\ fn = "safe_insert_candidate"
       /\ data.type = "str"
       /\ \/ data.len > MaxDataLen
          \/ data.body = "object" /\ data.obj.candidate_name = Missing

\* A call that returned on a malformed input returned an error string, one
\* that states the length for an oversized candidate payload, and made no
\* call on the store.
MalformedTurnedAway ==
    LET c == mongoCall'
    IN (~c.raised /\ Malformed(c.fn, c.input)) =>
         /\ c.message.text \in ErrorWordings
         /\ (c.fn = "safe_insert_candidate" /\ c.input.type = "str"
               /\ c.input.len > MaxDataLen) =>
              /\ c.message.text = "too_large"
              /\ c.message.len = c.input.len
         /\ c.lookups = 0
         /\ c.inserts = 0
         /\ candStore' = candStore
         /\ jobStore' = jobStore

\* Every returning call turns a malformed input away as stated.
ReturningToolsTurnMalformedAway == [][ToolCallStep => MalformedTurnedAway]_vars

\* C30: safe_insert_job returns "Successfully inserted job data" only when
\* the call wrote a new job record to the store.
C30_SuccessMeansInserted ==
    [][(/\ ToolCallStep
        /\ mongoCall'.fn = "safe_insert_job"
        /\ ~mongoCall'.raised
        /\ mongoCall'.message.text = "success")
       => /\ mongoCall'.inserts = 1
          /\ Len(jobStore') = Len(jobStore) + 1
          /\ jobStore'[Len(jobStore')].job_title = mongoCall'.input.obj.job_title]_vars

\* A failed insert is not reported as a success.
FailedJobInsertReported ==
    [][(/\ ToolCallStep
        /\ mongoCall'.fn = "safe_insert_job"
        /\ mongoCall'.input.type = "str"
        /\ mongoCall'.input.body = "object"
        /\ ~storeUp)
       => mongoCall'.message.text = "insert_error"]_vars

\* C20: safe_insert_candidate and safe_insert_job never raise, and an input
\* that is empty, not parsable as JSON, without candidate_name or (for
\* candidates) longer than 2000 characters yields an error string, which
\* states the length for an oversized payload, with no lookup and no insert
\* made on the store.
C20_SafeToolsNeverRaise ==
    [][ToolCallStep => (~mongoCall'.raised /\ MalformedTurnedAway)]_vars

\* ------------------------------------------------------------------------
\* TokenTracker
\*
\* A model name is the sequence of its characters.  Money is counted in
\* 1e-7 dollars, so that a rate per 1K tokens in 1e-4 dollars times a token
\* count is exact: 0.0015 $ / 1K is 15, and 1000 tokens at it cost 15000.
\* ------------------------------------------------------------------------

MaxRecords == 3

\* TOKEN_PRICES, in 1e-4 dollars per 1K tokens.
TOKEN_PRICES ==
    [gpt35turbo |-> [key |-> <<"g", "p", "t", "-", "3", ".", "5", "-", "t", "u", "r", "b", "o">>,
                     input |-> 15, output |-> 20],
     gpt4 |-> [key |-> <<"g", "p", "t", "-", "4">>, input |-> 300, output |-> 600],
     gpt4turbo |-> [key |-> <<"g", "p", "t", "-", "4", "-", "t", "u", "r", "b", "o">>,
                    input |-> 100, output |-> 300]]

ModelChoices ==
    { <<"G", "P", "T", "-", "4", "-", "T", "u", "r", "b", "o">>,
      <<"g", "p", "t", "-", "4", "o">>,
      <<"g", "p", "t", "-", "3", ".", "5", "-", "t", "u", "r", "b", "o", "-", "1", "6", "k">>,
      <<"l", "l", "a", "m", "a">> }

OperationChoices == {"resume_parsing", "job_parsing"}

\* (prompt_tokens, completion_tokens) of a call.
TokenChoices == { <<1000, 500>>, <<3, 0>> }

\* str.lower() on the characters the model names use.
LowerChar(ch) ==
    IF ch = "G" THEN "g" ELSE IF ch = "P" THEN "p" ELSE IF ch = "T" THEN "t" ELSE ch

Lower(name) == [i \in 1..Len(name) |-> LowerChar(name[i])]

\* sub in name
Contains(sub, name) ==
    \E i \in 1..(Len(name) - Len(sub) + 1) : SubSeq(name, i, i + Len(sub) - 1) = sub

NoPricing == [key |-> <<>>, input |-> 0, output |-> 0]

\* Mutant: the table is looked up by the tier found, with no default for a
\* name that matches none (pricing is None and the cost 0.0).
PricingNoFallback(model_name) ==
    LET model_key == Lower(model_name)
    IN IF Contains(TOKEN_PRICES.gpt4turbo.key, model_key) THEN TOKEN_PRICES.gpt4turbo
       ELSE IF Contains(TOKEN_PRICES.gpt4.key, model_key) THEN TOKEN_PRICES.gpt4
       ELSE IF Contains(TOKEN_PRICES.gpt35turbo.key, model_key) THEN TOKEN_PRICES.gpt35turbo
       ELSE NoPricing

\* Mutant: 'gpt-4' is tried before 'gpt-4-turbo'.
PricingGpt4First(model_name) ==
    LET model_key == Lower(model_name)
    IN IF Contains(TOKEN_PRICES.gpt4.key, model_key) THEN TOKEN_PRICES.gpt4
       ELSE IF Contains(TOKEN_PRICES.gpt4turbo.key, model_key) THEN TOKEN_PRICES.gpt4turbo
       ELSE IF Contains(TOKEN_PRICES.gpt35turbo.key, model_key) THEN TOKEN_PRICES.gpt35turbo
       ELSE TOKEN_PRICES.gpt35turbo

\* Lines 130-140: the tier of a model name.
Pricing(model_name) ==
    LET model_key == Lower(model_name)
    IN IF Contains(TOKEN_PRICES.gpt4turbo.key, model_key) THEN TOKEN_PRICES.gpt4turbo
       ELSE IF Contains(TOKEN_PRICES.gpt4.key, model_key) THEN TOKEN_PRICES.gpt4
       ELSE IF Contains(TOKEN_PRICES.gpt35turbo.key, model_key) THEN TOKEN_PRICES.gpt35turbo
       ELSE TOKEN_PRICES.gpt35turbo

\* _calculate_cost
calculate_cost(model_name, prompt_tokens, completion_tokens) ==
    LET pricing == Pricing(model_name)
    IN IF pricing = NoPricing THEN 0
       ELSE prompt_tokens * pricing.input + completion_tokens * pricing.output

\* Mutant: the record counts the prompt tokens only.
UsageRecordPromptOnly(operation_type, model_name, prompt_tokens, completion_tokens) ==
    [operation_type |-> operation_type,
     model_name |-> model_name,
     prompt_tokens |-> prompt_tokens,
     completion_tokens |-> completion_tokens,
     total_tokens |-> prompt_tokens,
     estimated_cost |-> calculate_cost(model_name, prompt_tokens, completion_tokens)]

\* Lines 76-91: the TokenUsageRecord of a call.
UsageRecord(operation_type, model_name, prompt_tokens, completion_tokens) ==
    [operation_type |-> operation_type,
     model_name |-> model_name,
     prompt_tokens |-> prompt_tokens,
     completion_tokens |-> completion_tokens,
     total_tokens |-> prompt_tokens + completion_tokens,
     estimated_cost |-> calculate_cost(model_name, prompt_tokens, completion_tokens)]

\* Lines 96-104: the totals of an operation type not seen before.
NewTotals ==
    [total_tokens |-> 0, prompt_tokens |-> 0, completion_tokens |-> 0,
     estimated_cost |-> 0, call_count |-> 0, models_used |-> {}]

\* Mutant: the record is put in front of the log.
PrependToLog(records, record) == <<record>> \o records

\* Line 93: self.usage_records.append(record).
AppendToLog(records, record) == Append(records, record)

\* Mutant: the models of the later records of a type are not added.
AddToTotalsFirstModel(totals, record) ==
    [total_tokens |-> totals.total_tokens + record.total_tokens,
     prompt_tokens |-> totals.prompt_tokens + record.prompt_tokens,
     completion_tokens |-> totals.completion_tokens + record.completion_tokens,
     estimated_cost |-> totals.estimated_cost + record.estimated_cost,
     call_count |-> totals.call_count + 1,
     models_used |-> IF totals.call_count = 0 THEN {record.model_name}
                     ELSE totals.models_used]

\* Lines 106-112: the totals with one more record.
AddToTotals(totals, record) ==
    [total_tokens |-> totals.total_tokens + record.total_tokens,
     prompt_tokens |-> totals.prompt_tokens + record.prompt_tokens,
     completion_tokens |-> totals.completion_tokens + record.completion_tokens,
     estimated_cost |-> totals.estimated_cost + record.estimated_cost,
     call_count |-> totals.call_count + 1,
     models_used |-> totals.models_used \cup {record.model_name}]

\* Lines 95-112: operation_totals after a record.
UpdateTotals(all_totals, record) ==
    LET op == record.operation_type
        before == IF op \in DOMAIN all_totals THEN all_totals[op] ELSE NewTotals
    IN [o \in DOMAIN all_totals \cup {op} |->
            IF o = op THEN AddToTotals(before, record) ELSE all_totals[o]]

RECURSIVE SumField(_, _)
SumField(records, field) ==
    IF records = <<>> THEN 0 ELSE Head(records)[field] + SumField(Tail(records), field)

\* The model_usage breakdown of lines 170-180.
ModelUsage(records) ==
    LET models == { records[i].model_name : i \in 1..Len(records) }
        of(m) == SelectSeq(records, LAMBDA r : r.model_name = m)
    IN [m \in models |-> [calls |-> Len(of(m)),
                          tokens |-> SumField(of(m), "total_tokens"),
                          cost |-> SumField(of(m), "estimated_cost")]]

\* The operation_breakdown of lines 183-197 (the average is derived from it).
OperationBreakdown(all_totals) ==
    [o \in DOMAIN all_totals |->
        [calls |-> all_totals[o].call_count,
         total_tokens |-> all_totals[o].total_tokens,
         prompt_tokens |-> all_totals[o].prompt_tokens,
         completion_tokens |-> all_totals[o].completion_tokens,
         estimated_cost |-> all_totals[o].estimated_cost,
         models_used |-> all_totals[o].models_used]]

\* get_session_summary (session_duration left out): the short dict of lines
\* 157-164 for an empty log, the full one otherwise.
get_session_summary(records, all_totals) ==
    IF records = <<>>
    THEN [total_operations |-> 0,
          total_cost |-> 0,
          total_tokens |-> 0,
          operation_breakdown |-> [o \in {} |-> 0]]
    ELSE [total_operations |-> Len(records),
          total_cost |-> SumField(records, "estimated_cost"),
          total_tokens |-> SumField(records, "total_tokens"),
          total_prompt_tokens |-> SumField(records, "prompt_tokens"),
          total_completion_tokens |-> SumField(records, "completion_tokens"),
          operation_breakdown |-> OperationBreakdown(all_totals),
          model_usage |-> ModelUsage(records),
          cost_per_operation_type |->
              [o \in DOMAIN all_totals |-> all_totals[o].estimated_cost]]

\* Total cost above which the optimization tips are printed (line 275:
\* 0.10 dollars), in 1e-7 dollars.
TipsThreshold == 1000000

\* print_session_summary (lines 218-281) on the summary it fetched: the parts
\* of the report it printed, and whether it raised.  summary["model_usage"]
\* (line 242) is a plain subscript: KeyError when the summary has no such
\* entry.
print_session_summary(summary) ==
    LET overview == <<"overview">>
                    \o (IF summary.total_operations > 0 THEN <<"token_split">>
                        ELSE <<"no_api_calls">>)
    IN IF "model_usage" \notin DOMAIN summary
       THEN [raised |-> TRUE, printed |-> overview]
       ELSE [raised |-> FALSE,
             printed |-> overview
                \o (IF DOMAIN summary.model_usage # {} THEN <<"model_usage">> ELSE <<>>)
                \o (IF DOMAIN summary.operation_breakdown # {}
                    THEN <<"operation_breakdown">> ELSE <<>>)
                \o (IF summary.total_operations > 0 THEN <<"efficiency">> ELSE <<>>)
                \o (IF summary.total_operations > 0 /\ summary.total_cost > TipsThreshold
                    THEN <<"tips">> ELSE <<>>)
                \o <<"end">>]

InitTracker ==
    /\ ParkedChunk
    /\ ParkedRank
    /\ ParkedMongo
    /\ usage_records = <<>>
    /\ operation_totals = [op \in {} |-> 0]
    /\ issued = <<>>
    /\ trackerReturn = NoTrackerCall
    /\ lock = 0
    /\ threads = <<>>

TrackerFrame == UNCHANGED <<chunkVars, rankVars, mongoVars, lock, threads>>

\* record_usage, under the lock.
RecordUsage ==
    /\ Len(usage_records) < MaxRecords
    /\ \E operation_type \in OperationChoices, model_name \in ModelChoices, tokens \in TokenChoices :
        LET record == UsageRecord(operation_type, model_name, tokens[1], tokens[2])
        IN /\ usage_records' = AppendToLog(usage_records, record)
           /\ operation_totals' = UpdateTotals(operation_totals, record)
           /\ issued' = Append(issued, [operation_type |-> operation_type,
                                        model_name |-> model_name,
                                        prompt_tokens |-> tokens[1],
                                        completion_tokens |-> tokens[2]])
           /\ trackerReturn' = [call |-> "record_usage", value |-> record.estimated_cost]
    /\ TrackerFrame

\* get_session_summary, under the lock.
GetSessionSummary ==
    /\ trackerReturn' = [call |-> "get_session_summary",
                         value |-> get_session_summary(usage_records, operation_totals)]
    /\ UNCHANGED <<usage_records, operation_totals, issued>>
    /\ TrackerFrame

\* reset_session, under the lock.
ResetSession ==
    /\ usage_records' = <<>>
    /\ operation_totals' = [op \in {} |-> 0]
    /\ issued' = <<>>
    /\ trackerReturn' = [call |-> "reset_session"]
    /\ TrackerFrame

\* print_session_summary: get_session_summary under the lock, the printing
\* after it.
PrintSessionSummary ==
    /\ LET r == print_session_summary(get_session_summary(usage_records, operation_totals))
       IN trackerReturn' = [call |-> "print_session_summary", raised |-> r.raised,
                            printed |-> r.printed]
    /\ UNCHANGED <<usage_records, operation_totals, issued>>
    /\ TrackerFrame

NextTracker == RecordUsage \/ GetSessionSummary \/ PrintSessionSummary \/ ResetSession

SpecTracker == InitTracker /\ [][NextTracker]_vars

\* ---- properties of the TokenTracker

Summarised == trackerReturn.call = "get_session_summary"

\* C9 as stated: the summary reports total_operations = N, total_tokens = the
\* sum of prompt + completion tokens of the N calls, and total_prompt_tokens
\* and total_completion_tokens as the sums of the recorded counts.
C9_SummaryTotals ==
    Summarised =>
        LET summary == trackerReturn.value
        IN /\ summary.total_operations = Len(issued)
           /\ summary.total_tokens
                = SumField(issued, "prompt_tokens") + SumField(issued, "completion_tokens")
           /\ "total_prompt_tokens" \in DOMAIN summary
           /\ "total_completion_tokens" \in DOMAIN summary
           /\ summary.total_prompt_tokens = SumField(issued, "prompt_tokens")
           /\ summary.total_completion_tokens = SumField(issued, "completion_tokens")

\* C9 amended: total_operations = N and total_tokens = the sum for every N;
\* total_prompt_tokens and total_completion_tokens are the sums for N >= 1,
\* and for N = 0 the summary has no such entries.
C9_SummaryTotalsNonEmpty ==
    Summarised =>
        LET summary == trackerReturn.value
        IN /\ summary.total_operations = Len(issued)
           /\ summary.total_tokens
                = SumField(issued, "prompt_tokens") + SumField(issued, "completion_tokens")
           /\ ("total_prompt_tokens" \in DOMAIN summary) = (Len(issued) >= 1)
           /\ ("total_completion_tokens" \in DOMAIN summary) = (Len(issued) >= 1)
           /\ Len(issued) >= 1 =>
                /\ summary.total_prompt_tokens = SumField(issued, "prompt_tokens")
                /\ summary.total_completion_tokens = SumField(issued, "completion_tokens")

C9_Witness ==
    /\ Summarised
    /\ Len(issued) = 3
    /\ issued[1].prompt_tokens # issued[2].prompt_tokens
    /\ issued[1].operation_type # issued[3].operation_type
    /\ trackerReturn.value.total_tokens = 3003

\* A name that matches no entry of the price table.
Unrecognized(model_name) ==
    \A tier \in DOMAIN TOKEN_PRICES : ~Contains(TOKEN_PRICES[tier].key, Lower(model_name))

\* C10: a record_usage with an unrecognized model name returns the cost at the
\* gpt-3.5-turbo rates, appends the record and updates the aggregates.
C10_UnknownModelDefaultTier ==
    [][(/\ trackerReturn'.call = "record_usage"
        /\ Len(issued') = Len(issued) + 1
        /\ Unrecognized(issued'[Len(issued')].model_name))
       => LET call == issued'[Len(issued')]
              op == call.operation_type
              cost == call.prompt_tokens * 15 + call.completion_tokens * 20
              old == IF op \in DOMAIN operation_totals THEN operation_totals[op] ELSE NewTotals
          IN /\ trackerReturn'.value = cost
             /\ Len(usage_records') = Len(usage_records) + 1
             /\ SubSeq(usage_records', 1, Len(usage_records)) = usage_records
             /\ usage_records'[Len(usage_records')].model_name = call.model_name
             /\ usage_records'[Len(usage_records')].estimated_cost = cost
             /\ usage_records'[Len(usage_records')].total_tokens
                    = call.prompt_tokens + call.completion_tokens
             /\ op \in DOMAIN operation_totals'
             /\ operation_totals'[op].call_count = old.call_count + 1
             /\ operation_totals'[op].total_tokens
                    = old.total_tokens + call.prompt_tokens + call.completion_tokens
             /\ operation_totals'[op].estimated_cost = old.estimated_cost + cost
             /\ call.model_name \in operation_totals'[op].models_used]_vars

C10_Witness ==
    /\ trackerReturn.call = "record_usage"
    /\ Len(usage_records) = 2
    /\ Unrecognized(usage_records[2].model_name)
    /\ ~Unrecognized(usage_records[1].model_name)
    /\ usage_records[1].operation_type = usage_records[2].operation_type
    /\ trackerReturn.value = 25000

\* The records of the log with this operation type.
RecordsOfType(records, op) == SelectSeq(records, LAMBDA r : r.operation_type = op)

\* The aggregates of one operation type recomputed from the log.
Recomputed(records, op) ==
    LET mine == RecordsOfType(records, op)
    IN [total_tokens |-> SumField(mine, "total_tokens"),
        prompt_tokens |-> SumField(mine, "prompt_tokens"),
        completion_tokens |-> SumField(mine, "completion_tokens"),
        estimated_cost |-> SumField(mine, "estimated_cost"),
        call_count |-> Len(mine),
        models_used |-> { mine[i].model_name : i \in 1..Len(mine) }]

\* C21: in every state reached by record_usage and reset_session the
\* operation_totals have exactly the operation types of the log, and for each
\* type the call count, the token sums, the cost sum and the model set of the
\* log's records of that type.
C21_AggregatesMatchLog ==
    /\ DOMAIN operation_totals
         = { usage_records[i].operation_type : i \in 1..Len(usage_records) }
    /\ \A op \in DOMAIN operation_totals :
         operation_totals[op] = Recomputed(usage_records, op)

C21_Witness ==
    /\ trackerReturn.call = "record_usage"
    /\ Len(usage_records) = 3
    /\ DOMAIN operation_totals = OperationChoices
    /\ \E op \in OperationChoices :
         /\ operation_totals[op].call_count = 2
         /\ Cardinality(operation_totals[op].models_used) = 2
         /\ operation_totals[op].total_tokens = 1503

\* C22 as stated: every operation of the tracker leaves each record of the
\* log in the log, at its position and with its field values.
C22_LogAppendOnly ==
    [][/\ Len(usage_records') >= Len(usage_records)
       /\ SubSeq(usage_records', 1, Len(usage_records)) = usage_records]_vars

\* C22 amended: record_usage, get_session_summary and print_session_summary
\* leave each record of the log at its position with its field values,
\* record_usage adding one record at the end; reset_session empties the log.
C22_LogAppendOnlyUntilReset ==
    [][/\ trackerReturn'.call = "reset_session" => usage_records' = <<>>
       /\ trackerReturn'.call \in {"get_session_summary", "print_session_summary"} =>
            usage_records' = usage_records
       /\ trackerReturn'.call = "record_usage" =>
            /\ Len(usage_records') = Len(usage_records) + 1
            /\ SubSeq(usage_records', 1, Len(usage_records)) = usage_records]_vars

C22_Witness ==
    /\ trackerReturn.call = "record_usage"
    /\ Len(usage_records) = 3
    /\ usage_records[1] # usage_records[2]
    /\ usage_records[2] # usage_records[3]

Printed(part) ==
    \E i \in 1..Len(trackerReturn.printed) : trackerReturn.printed[i] = part

\* C25: print_session_summary completes without raising in every state of
\* the tracker, and with no usage recorded it reports that no API calls were
\* made.
C25_PrintSummaryCompletes ==
    trackerReturn.call = "print_session_summary" =>
        /\ ~trackerReturn.raised
        /\ Printed("end")
        /\ usage_records = <<>> => Printed("no_api_calls")

\* With usage recorded the report is printed to its end.
PrintCompletesWithUsage ==
    (trackerReturn.call = "print_session_summary" /\ usage_records # <<>>) =>
        /\ ~trackerReturn.raised
        /\ Printed("end")
        /\ ~Printed("no_api_calls")

\* ---- _calculate_cost on its own

CostModelChoices ==
    ModelChoices
    \cup { <<"g", "p", "t", "-", "4">>,
           <<"g", "p", "t", "-", "4", "-", "t", "u", "r", "b", "o", "-", "p", "r", "e">>,
           <<"g", "p", "t", "-", "3", ".", "5", "-", "t", "u", "r", "b", "o", "+",
             "G", "P", "T", "-", "4">>,
           <<"g", "p", "t", "-", "t", "u", "r", "b", "o">> }

CostPromptChoices == {0, 1, 1000, 1500}

CostCompletionChoices == {0, 500, 2000}

\* The arguments of one call of _calculate_cost.
InitCost ==
    /\ ParkedChunk
    /\ ParkedRank
    /\ ParkedMongo
    /\ usage_records = <<>>
    /\ operation_totals = [op \in {} |-> 0]
    /\ \E model_name \in CostModelChoices, prompt_tokens \in CostPromptChoices,
          completion_tokens \in CostCompletionChoices :
         issued = << [operation_type |-> "none", model_name |-> model_name,
                      prompt_tokens |-> prompt_tokens,
                      completion_tokens |-> completion_tokens] >>
    /\ trackerReturn = NoTrackerCall
    /\ lock = 0
    /\ threads = <<>>

\* _calculate_cost(model_name, prompt_tokens, completion_tokens)
CalculateCost ==
    /\ trackerReturn = NoTrackerCall
    /\ trackerReturn' =
         [call |-> "_calculate_cost",
          value |-> calculate_cost(issued[1].model_name, issued[1].prompt_tokens,
                                   issued[1].completion_tokens)]
    /\ UNCHANGED <<usage_records, operation_totals, issued>>
    /\ TrackerFrame

NextCost == CalculateCost

SpecCost == InitCost /\ [][NextCost]_vars

\* ---- properties of _calculate_cost

Has(key, model_name) == Contains(key, Lower(model_name))

\* C26: the tier is the first of 'gpt-4-turbo', 'gpt-4', 'gpt-3.5-turbo' that
\* the lower-cased name contains, a name with 'gpt-4-turbo' in it being priced
\* at the gpt-4-turbo rates (0.01 and 0.03 dollars per 1K) and not at the
\* gpt-4 rates (0.03 and 0.06), and the cost is prompt_tokens/1000 x input
\* rate + completion_tokens/1000 x output rate of that tier.
C26_FirstMatchTier ==
    trackerReturn.call = "_calculate_cost" =>
        LET name == issued[1].model_name
            p == issued[1].prompt_tokens
            c == issued[1].completion_tokens
            cost == trackerReturn.value
            turbo == Has(<<"g", "p", "t", "-", "4", "-", "t", "u", "r", "b", "o">>, name)
            four == Has(<<"g", "p", "t", "-", "4">>, name)
            three == Has(<<"g", "p", "t", "-", "3", ".", "5", "-", "t", "u", "r", "b", "o">>,
                         name)
        IN /\ turbo => cost = p * 100 + c * 300
           /\ (turbo /\ p + c > 0) => cost # p * 300 + c * 600
           /\ (~turbo /\ four) => cost = p * 300 + c * 600
           /\ (~turbo /\ ~four /\ three) => cost = p * 15 + c * 20

C26_Witness ==
    /\ trackerReturn.call = "_calculate_cost"
    /\ issued[1].model_name = <<"G", "P", "T", "-", "4", "-", "T", "u", "r", "b", "o">>
    /\ issued[1].prompt_tokens = 1500
    /\ issued[1].completion_tokens = 500
    /\ trackerReturn.value = 300000

\* A name with both 'gpt-3.5-turbo' and 'gpt-4' in it is priced as gpt-4.
Gpt4BeforeGpt35 ==
    /\ trackerReturn.call = "_calculate_cost"
    /\ Has(<<"g", "p", "t", "-", "4">>, issued[1].model_name)
    /\ Has(<<"g", "p", "t", "-", "3", ".", "5", "-", "t", "u", "r", "b", "o">>,
           issued[1].model_name)
    /\ issued[1].prompt_tokens = 1000
    /\ trackerReturn.value = 300000 + issued[1].completion_tokens * 600

\* ------------------------------------------------------------------------
\* TokenTracker called from several threads
\*
\* Each method body is "with self._lock:", and inside it the statements run
\* one after the other: a thread switch can fall between the append to the
\* log and the update of the totals, between the reading of the log and the
\* reading of the totals, and between the two clear() calls.
\* ------------------------------------------------------------------------

Threads == {1, 2}

\* Calls the threads make between them.
MaxConcCalls == 3

TrackerCalls ==
    {"record_usage", "get_session_summary", "print_session_summary", "reset_session"}

ConcModelChoices == { <<"g", "p", "t", "-", "4", "o">> }

NoArg == [operation_type |-> "none", model_name |-> <<>>,
          prompt_tokens |-> 0, completion_tokens |-> 0]

NoReturn == [kind |-> "none"]

ThreadStart ==
    [pc |-> "idle", call |-> "none", arg |-> NoArg, local |-> <<>>,
     ret |-> NoReturn, calls |-> 0]

InitTrackerConc ==
    /\ ParkedChunk
    /\ ParkedRank
    /\ ParkedMongo
    /\ usage_records = <<>>
    /\ operation_totals = [op \in {} |-> 0]
    /\ issued = <<>>
    /\ trackerReturn = NoTrackerCall
    /\ lock = 0
    /\ threads = [t \in Threads |-> ThreadStart]

ConcTrackerFrame == UNCHANGED <<chunkVars, rankVars, mongoVars, trackerReturn>>

\* Mutant: the lock lets a thread in whoever holds it.
LockFreeAlways(l) == TRUE

\* Lock.acquire() succeeds only on a free lock (threading.Lock is not reentrant).
LockFree(l) == l = 0

\* Mutant: leaving the with block keeps the lock.
ReleasedKept(holder) == holder

\* Leaving "with self._lock:", by return or by exception, releases the lock.
Released(holder) == 0

\* The first statement of each method body.
FirstStep(call) ==
    IF call = "record_usage" THEN "append"
    ELSE IF call = "reset_session" THEN "clear_log"
    ELSE "read_log"

\* A thread calls a method of the tracker.
Call(t) ==
    /\ threads[t].pc = "idle"
    /\ SumSeq([u \in 1..Cardinality(Threads) |-> threads[u].calls]) < MaxConcCalls
    /\ \E call \in TrackerCalls :
        \E operation_type \in OperationChoices, model_name \in ConcModelChoices,
           tokens \in TokenChoices :
            LET arg == IF call = "record_usage"
                       THEN [operation_type |-> operation_type, model_name |-> model_name,
                             prompt_tokens |-> tokens[1], completion_tokens |-> tokens[2]]
                       ELSE NoArg
            IN threads' = [threads EXCEPT ![t] =
                              [pc |-> "acquire", call |-> call, arg |-> arg, local |-> <<>>,
                               ret |-> NoReturn, calls |-> @.calls + 1]]
    /\ UNCHANGED <<usage_records, operation_totals, issued, lock>>
    /\ ConcTrackerFrame

\* with self._lock: (entry)
Acquire(t) ==
    /\ threads[t].pc = "acquire"
    /\ LockFree(lock)
    /\ lock' = t
    /\ threads' = [threads EXCEPT ![t].pc = FirstStep(threads[t].call)]
    /\ UNCHANGED <<usage_records, operation_totals, issued>>
    /\ ConcTrackerFrame

\* record_usage, lines 76-93: the record is built and appended to the log.
AppendRecord(t) ==
    /\ threads[t].pc = "append"
    /\ LET a == threads[t].arg
           record == UsageRecord(a.operation_type, a.model_name,
                                 a.prompt_tokens, a.completion_tokens)
       IN /\ usage_records' = Append(usage_records, record)
          /\ issued' = Append(issued, a)
          /\ threads' = [threads EXCEPT ![t].pc = "totals", ![t].local = <<record>>]
    /\ UNCHANGED <<operation_totals, lock>>
    /\ ConcTrackerFrame

\* record_usage, lines 95-114: the totals are updated, the lock released and
\* the cost returned.
UpdateOperationTotals(t) ==
    /\ threads[t].pc = "totals"
    /\ LET record == threads[t].local[1]
       IN /\ operation_totals' = UpdateTotals(operation_totals, record)
          /\ threads' = [threads EXCEPT ![t].pc = "idle", ![t].local = <<>>,
                            ![t].ret = [kind |-> "value", value |-> record.estimated_cost]]
    /\ lock' = Released(lock)
    /\ UNCHANGED <<usage_records, issued>>
    /\ ConcTrackerFrame

\* What a caller of get_session_summary does with the summary: return it, or
\* (print_session_summary) go on to print it.
WithSummary(th, summary) ==
    IF th.call = "print_session_summary"
    THEN [th EXCEPT !.pc = "print", !.local = <<summary>>]
    ELSE [th EXCEPT !.pc = "idle", !.local = <<>>,
                    !.ret = [kind |-> "value", value |-> summary]]

\* get_session_summary, lines 157-180: the log is read; an empty log returns
\* the short summary at once.
ReadLog(t) ==
    /\ threads[t].pc = "read_log"
    /\ IF usage_records = <<>>
       THEN /\ threads' = [threads EXCEPT ![t] =
                              WithSummary(@, get_session_summary(<<>>, operation_totals))]
            /\ lock' = Released(lock)
       ELSE /\ threads' = [threads EXCEPT ![t].pc = "read_totals", ![t].local = usage_records]
            /\ UNCHANGED lock
    /\ UNCHANGED <<usage_records, operation_totals, issued>>
    /\ ConcTrackerFrame

\* get_session_summary, lines 183-216: the totals are read, the summary built
\* from both, the lock released.
ReadTotals(t) ==
    /\ threads[t].pc = "read_totals"
    /\ threads' = [threads EXCEPT ![t] =
                      WithSummary(@, get_session_summary(threads[t].local, operation_totals))]
    /\ lock' = Released(lock)
    /\ UNCHANGED <<usage_records, operation_totals, issued>>
    /\ ConcTrackerFrame

\* print_session_summary, lines 222-281, outside the lock: summary["model_usage"]
\* raises KeyError on the short summary.
PrintSummary(t) ==
    /\ threads[t].pc = "print"
    /\ LET summary == threads[t].local[1]
       IN threads' = [threads EXCEPT ![t].pc = "idle", ![t].local = <<>>,
                         ![t].ret = IF "model_usage" \in DOMAIN summary
                                    THEN [kind |-> "value", value |-> "None"]
                                    ELSE [kind |-> "raised", value |-> "KeyError"]]
    /\ UNCHANGED <<usage_records, operation_totals, issued, lock>>
    /\ ConcTrackerFrame

\* reset_session, line 286
ClearLog(t) ==
    /\ threads[t].pc = "clear_log"
    /\ usage_records' = <<>>
    /\ issued' = <<>>
    /\ threads' = [threads EXCEPT ![t].pc = "clear_totals"]
    /\ UNCHANGED <<operation_totals, lock>>
    /\ ConcTrackerFrame

\* reset_session, lines 287-288, and the release
ClearTotals(t) ==
    /\ threads[t].pc = "clear_totals"
    /\ operation_totals' = [op \in {} |-> 0]
    /\ threads' = [threads EXCEPT ![t].pc = "idle",
                                  ![t].ret = [kind |-> "value", value |-> "None"]]
    /\ lock' = Released(lock)
    /\ UNCHANGED <<usage_records, issued>>
    /\ ConcTrackerFrame

\* The steps of a thread that holds the lock or needs none.
RunningStep(t) ==
    \/ AppendRecord(t)
    \/ UpdateOperationTotals(t)
    \/ ReadLog(t)
    \/ ReadTotals(t)
    \/ PrintSummary(t)
    \/ ClearLog(t)
    \/ ClearTotals(t)

NextTrackerConc ==
    \/ \E t \in Threads : Call(t)
    \/ \E t \in Threads : Acquire(t)
    \/ \E t \in Threads : AppendRecord(t)
    \/ \E t \in Threads : UpdateOperationTotals(t)
    \/ \E t \in Threads : ReadLog(t)
    \/ \E t \in Threads : ReadTotals(t)
    \/ \E t \in Threads : PrintSummary(t)
    \/ \E t \in Threads : ClearLog(t)
    \/ \E t \in Threads : ClearTotals(t)

SpecTrackerConc == InitTrackerConc /\ [][NextTrackerConc]_vars

\* Fair scheduling: a thread that can run does run, and a thread waiting for
\* a lock that is free again and again gets it.
SpecTrackerFair ==
    /\ InitTrackerConc
    /\ [][NextTrackerConc]_vars
    /\ \A t \in Threads :
        /\ SF_vars(Acquire(t))
        /\ WF_vars(RunningStep(t))

\* ---- properties of the TokenTracker under concurrency

InsidePcs == {"append", "totals", "read_log", "read_totals", "clear_log", "clear_totals"}

\* The thread is inside a "with self._lock:" block.
Inside(t) == threads[t].pc \in InsidePcs

RECURSIVE FoldTotals(_, _)
FoldTotals(all_totals, records) ==
    IF records = <<>> THEN all_totals
    ELSE FoldTotals(UpdateTotals(all_totals, Head(records)), Tail(records))

RECURSIVE SumOver(_, _, _)
SumOver(f, keys, field) ==
    IF keys = {} THEN 0
    ELSE LET k == CHOOSE x \in keys : TRUE
         IN f[k][field] + SumOver(f, keys \ {k}, field)

\* The totals a summary derives from the log and the ones it takes from the
\* per-operation aggregates agree.
SummaryAgrees(summary) ==
    LET breakdown == summary.operation_breakdown
    IN /\ summary.total_operations = SumOver(breakdown, DOMAIN breakdown, "calls")
       /\ summary.total_tokens = SumOver(breakdown, DOMAIN breakdown, "total_tokens")
       /\ summary.total_cost = SumOver(breakdown, DOMAIN breakdown, "estimated_cost")

ReturnedSummary(t) ==
    /\ threads[t].call = "get_session_summary"
    /\ threads[t].ret.kind = "value"

\* C11: with threads calling record_usage, reset_session and
\* get_session_summary concurrently, at most one thread is inside a method
\* body at a time; whenever no thread is inside, the log holds exactly the
\* calls issued since the last reset and the per-operation aggregates are the
\* ones of that log (nothing lost, nothing half-applied); and every summary
\* returned is one in which log-derived totals and aggregates agree.
C11_AtomicUpdatesConsistentSnapshots ==
    /\ \A t, u \in Threads : (Inside(t) /\ Inside(u)) => t = u
    /\ \A t \in Threads : Inside(t) => lock = t
    /\ (\A t \in Threads : ~Inside(t)) =>
        /\ Len(usage_records) = Len(issued)
        /\ \A i \in 1..Len(issued) :
            usage_records[i] = UsageRecord(issued[i].operation_type, issued[i].model_name,
                                           issued[i].prompt_tokens, issued[i].completion_tokens)
        /\ operation_totals = FoldTotals([op \in {} |-> 0], usage_records)
    /\ \A t \in Threads : ReturnedSummary(t) => SummaryAgrees(threads[t].ret.value)

\* Both threads have recorded usage, one of them while the other was waiting
\* for the lock, and a summary taken afterwards counts both records.
C11_Witness ==
    /\ Len(usage_records) = 2
    /\ threads[1].calls = 2
    /\ threads[2].calls = 1
    /\ ReturnedSummary(1)
    /\ threads[1].ret.value.total_operations = 2
    /\ threads[2].call = "record_usage"
    /\ threads[2].pc = "idle"

\* A thread is in a call of the tracker that has not come back yet.
InCall(t) == threads[t].pc # "idle"

\* C12: the tracker never deadlocks.  A thread asking for the lock never
\* holds it already, the lock is held only by a thread inside a method body
\* (it is released on every way out), and under fair scheduling every call of
\* record_usage, get_session_summary, print_session_summary and reset_session
\* comes back.
C12_NoDeadlock ==
    /\ [](\A t \in Threads : threads[t].pc = "acquire" => lock # t)
    /\ [](lock # 0 => (lock \in Threads /\ Inside(lock)))
    /\ \A t \in Threads : InCall(t) ~> ~InCall(t)

\* One thread waits for the lock while the other is inside get_session_summary
\* on behalf of print_session_summary.
C12_Witness ==
    /\ threads[2].pc = "acquire"
    /\ lock = 1
    /\ threads[1].call = "print_session_summary"
    /\ threads[1].pc = "read_totals"

\* ------------------------------------------------------------------------
\* DocumentChunkProcessor.process_chunks_with_agents
\*
\* The chunks of the document are numbered 1..n_chunks.  A run is one call
\* of processing_team.run_stream; its stream yields messages until it is
\* exhausted or raises.  A message is the chunk and the conversation step it
\* came at and its shape: a task result (it has .messages, the last of which
\* is kept), a task result with no messages, a message with .content, or an
\* object with neither attribute.
\* ------------------------------------------------------------------------

MaxChunks == 2

\* Messages streamed for one document.
MaxMessages == 3

MessageKinds == {"task_result", "empty_task_result", "content", "other"}

NoMessage == [chunk |-> 0, step |-> 0, kind |-> "None"]

StreamedMessage(chunk_index, step, kind) == [chunk |-> chunk_index, step |-> step, kind |-> kind]

\* process_agent_message (lines 26-59): messages[-1] of an empty list raises
\* IndexError, which is caught, and None is returned.
process_agent_message(message) ==
    IF message.kind = "task_result"
    THEN LET last == [message EXCEPT !.kind = "last_of_task_result"]
         IN [none |-> FALSE, last_message |-> last, results |-> <<last>>]
    ELSE IF message.kind = "empty_task_result"
    THEN [none |-> TRUE, last_message |-> NoMessage, results |-> <<>>]
    ELSE IF message.kind = "content"
    THEN [none |-> FALSE, last_message |-> message, results |-> <<message>>]
    ELSE [none |-> FALSE, last_message |-> NoMessage, results |-> <<>>]

\* Lines 104-106.
ChunkLoopStart(n_chunks) ==
    [pc |-> "loop", n_chunks |-> n_chunks, chunk_index |-> 0, runs |-> <<>>,
     last_message |-> NoMessage, combined_results |-> <<>>, conversation_step |-> 1,
     logged |-> <<>>, returned |-> <<>>]

InitProc ==
    /\ ParkedRank
    /\ ParkedMongo
    /\ ParkedTracker
    /\ text = <<>>
    /\ max_tokens = 1
    /\ overlap = 0
    /\ nlTokens = 0
    /\ chunks = <<>>
    /\ chunkPc = "parked"
    /\ \E n_chunks \in 0..MaxChunks : proc = ChunkLoopStart(n_chunks)

ProcFrame ==
    /\ UNCHANGED <<text, max_tokens, overlap, nlTokens, chunks, chunkPc>>
    /\ UNCHANGED <<rankVars, mongoVars, trackerVars>>

\* Mutant: the next chunk is sent while a stream is still being read.
AtLoopHeadOrStreaming(p) == p.pc \in {"loop", "stream"}

\* The for statement (line 108) takes the next chunk only when the body of
\* the previous turn, the "async for" over its stream included, is over.
AtLoopHead(p) == p.pc = "loop"

\* Mutant: a failing stream ends the loop with what it raised.
OnStreamErrorRaise(p) ==
    [p EXCEPT !.pc = "raised",
              !.runs[Len(p.runs)].state = "failed"]

\* Lines 126-128: the error of the stream is logged and the loop continues.
OnStreamError(p) ==
    [p EXCEPT !.pc = "loop",
              !.runs[Len(p.runs)].state = "failed",
              !.logged = Append(@, p.chunk_index)]

\* Lines 108-117: the next chunk's task is built and run_stream is called.
StartChunk ==
    /\ AtLoopHead(proc)
    /\ proc.chunk_index < proc.n_chunks
    /\ proc' = [proc EXCEPT !.pc = "stream",
                            !.chunk_index = @ + 1,
                            !.runs = Append(@, [chunk |-> proc.chunk_index + 1,
                                                state |-> "open"])]
    /\ ProcFrame

\* Lines 117-124: the stream yields a message.
StreamMessage ==
    /\ proc.pc = "stream"
    /\ proc.conversation_step <= MaxMessages
    /\ \E kind \in MessageKinds :
        LET message == StreamedMessage(proc.chunk_index, proc.conversation_step, kind)
            result == process_agent_message(message)
        IN proc' = [proc EXCEPT
                      !.last_message = IF result.none THEN @ ELSE result.last_message,
                      !.combined_results = IF result.none THEN @ ELSE @ \o result.results,
                      !.conversation_step = @ + 1]
    /\ ProcFrame

\* The stream is exhausted: the async for ends.
StreamEnds ==
    /\ proc.pc = "stream"
    /\ proc' = [proc EXCEPT !.pc = "loop", !.runs[Len(proc.runs)].state = "exhausted"]
    /\ ProcFrame

\* The stream raises an Exception.
StreamFails ==
    /\ proc.pc = "stream"
    /\ proc' = OnStreamError(proc)
    /\ ProcFrame

\* Lines 130-134.
ProcReturn ==
    /\ proc.pc = "loop"
    /\ proc.chunk_index = proc.n_chunks
    /\ proc' = [proc EXCEPT !.pc = "returned",
                            !.returned = << [last_message |-> proc.last_message,
                                             combined_results |-> proc.combined_results,
                                             total_steps |-> proc.conversation_step] >>]
    /\ ProcFrame

NextProc == StartChunk \/ StreamMessage \/ StreamEnds \/ StreamFails \/ ProcReturn

SpecProc == InitProc /\ [][NextProc]_vars

\* ---- properties of process_chunks_with_agents

OpenRuns(p) == { k \in 1..Len(p.runs) : p.runs[k].state = "open" }

\* C23: the chunks are handled one at a time in index order: the k-th run is
\* the run of chunk k, a run is started only when every earlier one has ended
\* (exhausted or failed), no two runs are open together, and at the return
\* every chunk has been submitted exactly once.
C23_OneChunkAtATime ==
    /\ [](proc.pc # "parked" =>
            /\ \A k \in 1..Len(proc.runs) : proc.runs[k].chunk = k
            /\ Len(proc.runs) = proc.chunk_index
            /\ Cardinality(OpenRuns(proc)) <= 1
            /\ OpenRuns(proc) \subseteq {Len(proc.runs)}
            /\ proc.pc = "returned" => (Len(proc.runs) = proc.n_chunks /\ OpenRuns(proc) = {}))
    /\ [][Len(proc'.runs) > Len(proc.runs) =>
            /\ Len(proc'.runs) = Len(proc.runs) + 1
            /\ OpenRuns(proc) = {}
            /\ \A k \in 1..Len(proc.runs) : proc.runs[k].state \in {"exhausted", "failed"}]_vars

C23_Witness ==
    /\ proc.pc = "stream"
    /\ proc.chunk_index = 2
    /\ proc.runs[1].state = "exhausted"
    /\ proc.runs[2].state = "open"
    /\ Len(proc.combined_results) = 2
    /\ proc.combined_results[1].chunk = 1
    /\ proc.combined_results[2].chunk = 2

\* C27: when a stream fails, the error is logged, last_message and the
\* results gathered so far are kept, the loop goes on with the next chunk,
\* and the call returns them normally after the last chunk.
C27_StreamFailureContained ==
    /\ [](proc.pc # "parked" =>
            /\ proc.pc # "raised"
            /\ proc.pc = "returned" =>
                 /\ Len(proc.runs) = proc.n_chunks
                 /\ \A k \in 1..Len(proc.runs) : proc.runs[k].chunk = k
                 /\ proc.returned[1].combined_results = proc.combined_results
                 /\ proc.returned[1].last_message = proc.last_message)
    /\ [][(\E k \in 1..Len(proc.runs) :
              proc.runs[k].state = "open" /\ proc'.runs[k].state = "failed") =>
            /\ proc'.logged = Append(proc.logged, proc.chunk_index)
            /\ proc'.last_message = proc.last_message
            /\ proc'.combined_results = proc.combined_results
            /\ proc'.chunk_index = proc.chunk_index
            /\ proc'.pc = "loop"]_vars
    /\ [][proc.pc # "parked" =>
            /\ Len(proc'.combined_results) >= Len(proc.combined_results)
            /\ SubSeq(proc'.combined_results, 1, Len(proc.combined_results))
                 = proc.combined_results]_vars

C27_Witness ==
    /\ proc.pc = "returned"
    /\ proc.n_chunks = 2
    /\ proc.runs[1].state = "failed"
    /\ proc.runs[2].state = "exhausted"
    /\ proc.logged = <<1>>
    /\ Len(proc.returned[1].combined_results) = 2
    /\ proc.returned[1].combined_results[1].chunk = 1
    /\ proc.returned[1].combined_results[2].chunk = 2
    /\ proc.returned[1].last_message.chunk = 2

\* ------------------------------------------------------------------------
\* store_candidate_in_chromadb
\*
\* The collection is a function from document ids to documents.  The data
\* handed to the tool is its shape (a JSON object, a JSON array, a summary in
\* natural language), the candidate name that can be read from it, if any,
\* and the version of its content.  A document id is the pair of the two
\* parts of f"{candidate_name}_{%Y%m%d_%H%M%S}": the timestamp has a fixed
\* width, so the string determines the pair.
\* ------------------------------------------------------------------------

MaxVecCalls == 3

DataShapes == {"json_object", "json_array", "summary"}

CandidateData ==
    { [shape |-> sh, name |-> n, version |-> v] :
        sh \in DataShapes, n \in {"Ann", "Bob", Missing}, v \in {1, 2} }

\* Line 292 and line 316.
DocId(candidate_name, t) == <<candidate_name, t>>

\* collection.upsert(documents=[doc], ids=[id]): the document stored under the
\* id is replaced, a new id is added.
Upsert(collection, id, doc) ==
    [i \in DOMAIN collection \cup {id} |-> IF i = id THEN doc ELSE collection[i]]

\* Lines 254-259: the name found in the parsed data, or "unknown".
NameOrUnknown(data) == IF data.name = Missing THEN "unknown" ELSE data.name

\* store_candidate_in_chromadb, lines 192-323.  A JSON array has no .get: the
\* AttributeError (line 205) leads to the raw-text fallback of lines 303-320.
\* With the collection unreachable the fallback fails too and the exception
\* is raised again (line 323).
store_candidate_in_chromadb(collection, data, t, up) ==
    LET raw == data.shape = "json_array"
        candidate_name == IF raw THEN "unknown" ELSE NameOrUnknown(data)
        doc == [candidate_name |-> candidate_name,
                content_type |-> IF raw THEN "raw" ELSE "both",
                original_data |-> data]
    IN IF ~up THEN [collection |-> collection, raised |-> TRUE]
       ELSE [collection |-> Upsert(collection, DocId(candidate_name, t), doc),
             raised |-> FALSE]

InitVec ==
    /\ ParkedChunk
    /\ ParkedMongo
    /\ ParkedTracker
    /\ nJobs = 0
    /\ nCands = 0
    /\ indexUp \in BOOLEAN
    /\ rankCall = NoCall
    /\ indexQuery = NoQuery
    /\ indexAnswer = <<>>
    /\ rankResult = NoCall
    /\ candidate_collection = <<>>

VecCallsMade == IF rankCall = NoCall THEN 0 ELSE rankCall.n

StoreCandidateInChromadb ==
    /\ VecCallsMade < MaxVecCalls
    /\ \E data \in CandidateData :
        LET r == store_candidate_in_chromadb(candidate_collection, data, now, indexUp)
        IN /\ candidate_collection' = r.collection
           /\ rankCall' = [fn |-> "store_candidate_in_chromadb", n |-> VecCallsMade + 1,
                           data |-> data]
           /\ rankResult' = [fn |-> "store_candidate_in_chromadb", raised |-> r.raised]
    /\ UNCHANGED <<nJobs, nCands, indexUp, indexQuery, indexAnswer>>
    /\ UNCHANGED <<chunkVars, mongoVars, trackerVars>>

NextVec == StoreCandidateInChromadb \/ Tick

SpecVec == InitVec /\ [][NextVec]_vars

\* ---- properties of store_candidate_in_chromadb

DocumentsOf(name) ==
    { id \in DOMAIN candidate_collection : candidate_collection[id].candidate_name = name }

\* C29: after any sequence of store_candidate_in_chromadb calls the
\* collection holds at most one document per candidate: a call for a
\* candidate that has a document replaces it and adds none.
C29_OneDocumentPerCandidate ==
    \A name \in {"Ann", "Bob"} : Cardinality(DocumentsOf(name)) <= 1

\* A second call for a candidate within the same second replaces the document.
SameSecondOverrides ==
    [][(/\ rankCall'.fn = "store_candidate_in_chromadb"
        /\ rankCall'.n = VecCallsMade + 1
        /\ ~rankResult'.raised
        /\ DocId(NameOrUnknown(rankCall'.data), now) \in DOMAIN candidate_collection
        /\ rankCall'.data.shape # "json_array")
       => /\ DOMAIN candidate_collection' = DOMAIN candidate_collection
          /\ candidate_collection'[DocId(NameOrUnknown(rankCall'.data), now)].original_data
               = rankCall'.data]_vars

====
